---- MODULE Spec2Model ----
(***************************************************************************)
(* A model of the UniMRCP WebSocket bridge:                                *)
(*   - the shared WebSocket client   (libs/websocket-client/src/ws_client.c)*)
(*   - the recognizer engine         (plugins/websocket-recog)             *)
(*   - the synthesizer engine        (plugins/websocket-synth), which      *)
(*     carries its own private client (websocket_client_t)                 *)
(* Every operation of the code is an operator on the record it changes; the*)
(* actions of the three specifications (SpecWs, SpecRecog, SpecSynth) apply*)
(* them with the outcome of each socket call drawn from the outcomes the   *)
(* code distinguishes.                                                     *)
(***************************************************************************)
EXTENDS Integers, Sequences, FiniteSets, TLC

VARIABLES
    ws,        \* ws_client_t: state, socket, retry_count (+ open descriptors)
    wsLast,    \* the public call that returned last (see WsReturn)
    wsLoop,    \* connect_with_retry: index i of the next attempt, -1 outside the loop
    sc,        \* websocket_synth_channel_t
    sws,       \* the synthesizer's own websocket_client_t (+ the state of its TCP link)
    sq,        \* the synthesizer task's message queue (FIFO)
    st,        \* where the synthesizer's background task is
    sm,        \* where the media thread is inside websocket_synth_stream_read
    sNext,     \* id of the next request the host delivers to the synthesizer channel
    sResp,     \* per request: responses sent back to the host
    sDone,     \* per request: SPEAK-COMPLETE events sent to the host
    sCause,    \* per request: completion cause of its last SPEAK-COMPLETE
    sLog,      \* per request: what happened to it (accepted, stopped, ...);
               \* wrote: the frames the synthesizer's client has written;
               \* appended, copied, padded: since the last SPEAK or flush, the
               \* bytes put into the buffer, the bytes copied into host frames
               \* and the frames filled up with zeros;
               \* empty: the SPEAK requests handled whose text was empty;
               \* emptyNet: those of them whose handler made socket calls;
               \* netFailed: a send or a receive has failed on the connection
    wsMutex,   \* who holds the WS client's mutex: "free", "task" or "media"
    rc,        \* websocket_recog_channel_t
    det,       \* the voice activity detector: "inactivity" or "activity"
    rq,        \* the recognizer task's message queue (FIFO)
    rt,        \* where the recognizer's background task is
    rm,        \* where the media thread is inside websocket_recog_stream_write
    rNext,     \* id of the next request the host delivers to the recognizer channel
    rResp,     \* per request: responses sent back to the host
    rDone,     \* per request: RECOGNITION-COMPLETE events sent to the host
    rLog,      \* what the recognizer channel did for which request (history)
    fr,        \* one frame on its way through the encoder and the decoder
    bw,        \* one write into an audio buffer: the channel before and after
    je,        \* one string on its way through a JSON escape function
    tx         \* threads inside ws_client_send_frame and the bytes on the wire

wsVars == <<ws, wsLast, wsLoop>>

synthVars == <<sc, sws, sq, st, sm, sNext, sResp, sDone, sCause, sLog>>

recogVars == <<rc, det, rq, rt, rm, rNext, rResp, rDone, rLog>>

vars == <<ws, wsLast, wsLoop, sc, sws, sq, st, sm, sNext, sResp, sDone, sCause, sLog,
          wsMutex, rc, det, rq, rt, rm, rNext, rResp, rDone, rLog, fr, bw, je, tx>>

(***************************************************************************)
(* Bounds and configuration                                                *)
(***************************************************************************)
\* payloads of up to MaxCodecPayload bytes are carried whole through the
\* encoder and the decoder; of a longer one, its first MaxCodecPayload bytes
MaxCodecPayload == 2

\* longest string handed to a JSON escape function
MaxJsonLen == 2

\* descriptors the process may hold open at once (socket() fails beyond it)
MaxFds == 2

\* WS_DEFAULT_MAX_RETRIES
max_retries == 3

\* config.max_frame_size, scaled down: payload lengths are 0..max_frame_size+1
max_frame_size == 2

(***************************************************************************)
(* ws_client.c                                                             *)
(***************************************************************************)
\* WS_OPCODE_*
WsOpcodes == {"continuation", "text", "binary", "close", "ping", "pong"}

OpcodeNumber(op) ==
    CASE op = "continuation" -> 0
      [] op = "text" -> 1
      [] op = "binary" -> 2
      [] op = "close" -> 8
      [] op = "ping" -> 9
      [] op = "pong" -> 10

\* a ^ b on unsigned char
RECURSIVE ByteXor(_, _)
ByteXor(a, b) ==
    IF a = 0 /\ b = 0 THEN 0
    ELSE (((a % 2) + (b % 2)) % 2) + 2 * ByteXor(a \div 2, b \div 2)

\* An apr_size_t (64 bits) is kept as four 16-bit limbs, most significant
\* first, so that no value leaves the range of the checker's integers.
SizeT(n) == <<0, 0, 0, n>>

SizeLess126(len) == len[1] = 0 /\ len[2] = 0 /\ len[3] = 0 /\ len[4] < 126

SizeLess65536(len) == len[1] = 0 /\ len[2] = 0 /\ len[3] = 0

\* ws_build_frame_header: the header bytes for opcode number opcode
ws_build_frame_header(opcode, payload_len, mask) ==
    LET b0 == 128 + (opcode % 16) IN
    IF SizeLess126(payload_len) THEN
        <<b0, 128 + payload_len[4]>> \o mask
    ELSE IF SizeLess65536(payload_len) THEN
        <<b0, 128 + 126, payload_len[4] \div 256, payload_len[4] % 256>> \o mask
    ELSE
        <<b0, 128 + 127, 0, 0, 0, 0,
          payload_len[3] \div 256, payload_len[3] % 256,
          payload_len[4] \div 256, payload_len[4] % 256>> \o mask

\* ws_mask_data
ws_mask_data(data, mask) ==
    [i \in 1..Len(data) |-> ByteXor(data[i], mask[((i - 1) % 4) + 1])]

\* ws_client_receive_frame: fin, opcode, masked and the 7-bit length field
\* taken from the first two bytes
HeaderFin(b) == (b[1] \div 128) % 2 = 1
HeaderOpcode(b) == b[1] % 16
HeaderMasked(b) == (b[2] \div 128) % 2 = 1
HeaderLen7(b) == b[2] % 128

\* ws_client_receive_frame: the header of a frame that starts the byte
\* sequence b, with the extended length and the mask key
ParseHeader(b) ==
    LET len7 == HeaderLen7(b)
        ext == IF len7 = 126 THEN 2 ELSE IF len7 = 127 THEN 8 ELSE 0
        payload_len ==
            IF len7 = 126 THEN <<0, 0, 0, b[3] * 256 + b[4]>>
            ELSE IF len7 = 127 THEN <<0, 0, b[7] * 256 + b[8], b[9] * 256 + b[10]>>
            ELSE <<0, 0, 0, len7>>
        key == IF HeaderMasked(b) THEN SubSeq(b, 3 + ext, 6 + ext) ELSE <<>>
    IN [fin |-> HeaderFin(b), opcode |-> HeaderOpcode(b), masked |-> HeaderMasked(b),
        payload_len |-> payload_len, mask |-> key,
        header_len |-> 2 + ext + Len(key)]

\* ws_client_receive_frame: the payload, unmasked if the header says so
ParsePayload(h, data) == IF h.masked THEN ws_mask_data(data, h.mask) ELSE data

\* ws_client_send_close: the length of the payload it builds; reason_len is
\* strlen(reason), -1 for a NULL reason. payload is char[128].
ClosePayloadLen(code, reason_len) ==
    IF code > 0 THEN
        IF reason_len >= 0
        THEN 2 + (IF reason_len > 128 - 2 THEN 128 - 2 ELSE reason_len)
        ELSE 2
    ELSE 0

WsStates == {"disconnected", "connecting", "connected", "closing", "error"}

\* socket handle: NULL or a handle whose descriptor is open
NullSocket == "null"
OpenSocket == "open"

\* what the socket calls made by ws_client_connect can do, in call order
ConnectOutcomes ==
    {"create_fail", "resolve_fail", "connect_fail", "key_fail",
     "send_fail", "recv_fail", "no_101", "ok"}

\* ws_client_create
WsCreate ==
    [state |-> "disconnected", socket |-> NullSocket, retry_count |-> 0,
     fds |-> 0, destroyed |-> FALSE]

\* ws_client_connect, from the lock to the CONNECTING assignment
ConnectBegin(w) ==
    IF w.state = "connected" THEN w ELSE [w EXCEPT !.state = "connecting"]

\* ws_client_connect, from apr_socket_create to the unlock. The new handle
\* overwrites client->socket without a close of the old one; a failed
\* apr_socket_create leaves the field as it was.
ConnectEnd(w, o) ==
    IF w.state = "connected" THEN w
    ELSE IF o = "create_fail" THEN [w EXCEPT !.state = "error"]
    ELSE IF o = "ok" THEN
        [w EXCEPT !.state = "connected", !.socket = OpenSocket,
                  !.fds = w.fds + 1, !.retry_count = 0]
    ELSE \* created (fds + 1), then closed again (fds - 1) and set to NULL
        [w EXCEPT !.state = "error", !.socket = NullSocket]

\* the whole of ws_client_connect
Connect(w, o) == ConnectEnd(ConnectBegin(w), o)

\* its return value
ConnectRet(w, o) == w.state = "connected" \/ o = "ok"

\* apr_socket_create can succeed only while a descriptor is free
ConnectOutcomeOk(w, o) == o # "create_fail" => w.fds < MaxFds

\* ws_client_disconnect
Disconnect(w, send_close) ==
    [w EXCEPT !.state = "disconnected", !.socket = NullSocket,
              !.fds = IF w.socket = OpenSocket THEN w.fds - 1 ELSE w.fds]

\* a disconnect that sends the close frame whatever the state
DisconnectSendsCloseAnyState(w, send_close) == w.socket # NullSocket /\ send_close

\* ws_client_disconnect writes a close frame
DisconnectSendsClose(w, send_close) ==
    w.socket # NullSocket /\ send_close /\ w.state = "connected"

\* ws_client_destroy
Destroy(w) == [Disconnect(w, TRUE) EXCEPT !.destroyed = TRUE]

\* ws_client_is_connected
IsConnected(w) == w.state = "connected"

\* what the socket calls made by ws_client_send_frame can do
SendOutcomes == {"hdr_fail", "alloc_fail", "payload_fail", "ok"}

\* a send with no check of the payload size
SendFrameNoLimit(w, len, o) ==
    IF w.state # "connected" \/ w.socket = NullSocket THEN w
    ELSE IF o = "hdr_fail" THEN [w EXCEPT !.state = "error"]
    ELSE IF len > 0 /\ o = "payload_fail" THEN [w EXCEPT !.state = "error"]
    ELSE w

\* ws_client_send_frame
SendFrame(w, len, o) ==
    IF w.state # "connected" \/ w.socket = NullSocket THEN w
    ELSE IF len > max_frame_size THEN w
    ELSE IF o = "hdr_fail" THEN [w EXCEPT !.state = "error"]
    ELSE IF len > 0 /\ o = "payload_fail" THEN [w EXCEPT !.state = "error"]
    ELSE w

\* its return value
SendRet(w, len, o) ==
    /\ w.state = "connected" /\ w.socket # NullSocket
    /\ len <= max_frame_size
    /\ o # "hdr_fail"
    /\ (len > 0 => o = "ok")

\* what ws_client_receive_frame can meet on the socket
RecvOutcomes ==
    {"timeout", "hdr_err", "partial", "ext_fail", "oversize", "mask_fail",
     "payload_fail", "continuation", "text", "binary", "close", "ping", "pong"}

FrameOutcomes == {"continuation", "text", "binary", "close", "ping", "pong"}

\* the mask key: ws_generate_mask takes it from the clock, and no bit of
\* the header or of the client's state depends on its value
ClockMask == <<0, 0, 0, 0>>

\* a frame as ws_client_send_frame hands it to the socket: the bits of the
\* header it builds, the length the header declares and the payload buffer
WsFrame(op, len, payload) ==
    LET h == ws_build_frame_header(OpcodeNumber(op), SizeT(len), ClockMask) IN
    [opcode |-> op, fin |-> HeaderFin(h), mask |-> HeaderMasked(h),
     key |-> Len(ParseHeader(h).mask), len |-> len,
     payload |-> IF len > 0 THEN payload ELSE "none"]

\* ws_client_send_frame: the frames it hands to the socket
SendWrote(w, op, len, payload) ==
    IF w.state # "connected" \/ w.socket = NullSocket THEN <<>>
    ELSE IF len > max_frame_size THEN <<>>
    ELSE <<WsFrame(op, len, payload)>>

\* ws_client_send_frame: what the socket did with them
SendSock(w, len, o) ==
    IF w.state # "connected" \/ w.socket = NullSocket THEN "none"
    ELSE IF len > max_frame_size THEN "none"
    ELSE IF o = "hdr_fail" THEN "error"
    ELSE IF len > 0 /\ o = "alloc_fail" THEN "nomem"
    ELSE IF len > 0 /\ o = "payload_fail" THEN "error"
    ELSE "ok"

\* ws_client_disconnect: the close frame, built in place
DisconnectFrame ==
    LET h == <<128 + OpcodeNumber("close"), 128 + 0>> \o ClockMask IN
    [opcode |-> "close", fin |-> HeaderFin(h), mask |-> HeaderMasked(h),
     key |-> Len(ParseHeader(h).mask), len |-> 0, payload |-> "none"]

\* ws_client_disconnect: the frames it hands to the socket
DisconnectWrote(w, send_close) ==
    IF DisconnectSendsClose(w, send_close) THEN <<DisconnectFrame>> ELSE <<>>

\* a receive that leaves the state alone when it reads a close frame
ReceiveReadIgnoresClose(w, o) ==
    IF w.state # "connected" \/ w.socket = NullSocket THEN w
    ELSE IF o = "oversize" THEN [w EXCEPT !.state = "error"]
    ELSE w

\* ws_client_receive_frame up to the handling of control frames: what the
\* read does to the client
ReceiveRead(w, o) ==
    IF w.state # "connected" \/ w.socket = NullSocket THEN w
    ELSE IF o = "oversize" THEN [w EXCEPT !.state = "error"]
    ELSE IF o = "close" THEN [w EXCEPT !.state = "closing"]
    ELSE w

\* ws_client_receive_frame: a ping was read and is answered
PingRead(w, o) == w.state = "connected" /\ w.socket # NullSocket /\ o = "ping"

\* a reply made with the mutex still held by the caller
PingReplyMutexHeld == "task"

\* ws_client_receive_frame: who holds the client's mutex when
\* ws_client_send_frame is called for the pong (it is unlocked just before)
PingReplyMutex == "free"

\* ws_client_receive_frame; len is the payload length of the frame read and so
\* the outcome of the pong send made for a ping
ReceiveFrame(w, o, len, so) ==
    IF PingRead(w, o) THEN SendFrame(ReceiveRead(w, o), len, so)
    ELSE ReceiveRead(w, o)

\* its return value
ReceiveRet(w, o) ==
    /\ w.state = "connected" /\ w.socket # NullSocket
    /\ o \in FrameOutcomes

\* what the socket did during ws_client_receive_frame up to the end of the
\* frame. A failure inside the frame (after the two header bytes) is the
\* receive timeout running out or an error of the socket (why);
\* ws_socket_recv_exact returns FALSE for both.
ReceiveSock(w, o, why) ==
    IF w.state # "connected" \/ w.socket = NullSocket THEN "none"
    ELSE IF o = "timeout" THEN "timeout"
    ELSE IF o = "hdr_err" THEN "error"
    ELSE IF o = "partial" THEN "partial"
    ELSE IF o \in {"ext_fail", "mask_fail", "payload_fail"}
        THEN (IF why = "timeout" THEN "mid_timeout" ELSE "mid_error")
    ELSE "ok"

\* ws_client_receive_frame: the bytes of the stream it has taken from the
\* socket when it returns. A read of the two header bytes that times out or
\* fails takes none and one that obtains a single byte takes that byte (the
\* local header[] is dropped at the return); a failure inside the frame
\* comes after the two header bytes at least; a frame read through takes its
\* header and its payload.
ReceiveConsumed(w, o, len) ==
    IF w.state # "connected" \/ w.socket = NullSocket THEN 0
    ELSE IF o \in {"timeout", "hdr_err"} THEN 0
    ELSE IF o = "partial" THEN 1
    ELSE IF o \in {"ext_fail", "oversize", "mask_fail", "payload_fail"} THEN 2
    ELSE 2 + len

(***************************************************************************)
(* websocket_synth_engine.c                                                *)
(***************************************************************************)
\* requests the host delivers to one synthesizer channel
MaxSynthReq == 3

\* audio_buffer_size (AUDIO_BUFFER_SIZE), scaled down
SynthBufferSize == 3

\* frame->codec_frame.size, scaled down
SynthFrameSize == 2

\* largest payload_len of a frame the remote service sends, scaled down
MaxPayload == 2

SynthReqIds == 1..MaxSynthReq

\* NULL for speak_request and stop_response
NoRequest == 0

\* request->start_line.method_id
SynthMethods ==
    {"SET_PARAMS", "GET_PARAMS", "SPEAK", "STOP", "PAUSE", "RESUME",
     "BARGE_IN_OCCURRED", "CONTROL", "DEFINE_LEXICON"}

\* websocket_synth_engine_channel_create: the channel fields
SynthChannelCreate ==
    [speak_request |-> NoRequest, stop_response |-> NoRequest,
     paused |-> FALSE, audio_complete |-> FALSE,
     audio_buffer_write_pos |-> 0, audio_buffer_read_pos |-> 0]

\* websocket_synth_engine_channel_create: the websocket_client_t fields.
\* link is the TCP connection behind the socket: "up" (the service sends
\* frames), "silent" (it sends nothing), "dead" (it is gone), "none".
SynthClientCreate == [socket |-> NullSocket, connected |-> FALSE, link |-> "none"]

\* WEBSOCKET_SYNTH_MSG_SPEAK_REQUEST: websocket_client_connect is called
SynthConnectCalled(c) == ~c.connected

\* websocket_client_connect returns TRUE
SynthConnectRet(c, o) == c.connected \/ o = "ok"

\* websocket_client_connect
SynthConnect(c, o) ==
    IF c.connected THEN c
    ELSE IF o = "ok" THEN [socket |-> OpenSocket, connected |-> TRUE, link |-> "up"]
    ELSE [c EXCEPT !.socket = NullSocket, !.link = "none"]

\* what the two apr_socket_send calls of websocket_client_send_text can do
SynthSendOutcomes == {"hdr_fail", "payload_fail", "ok"}

\* websocket_client_send_text returns TRUE; no field of the client changes
SynthSendRet(c, o) == c.connected /\ c.socket # NullSocket /\ o = "ok"

\* websocket_synth_channel_speak, the fields it writes once the codec
\* descriptor is there
SynthSpeak(c, r) ==
    [c EXCEPT !.audio_buffer_write_pos = 0, !.audio_buffer_read_pos = 0,
              !.audio_complete = FALSE, !.paused = FALSE,
              !.speak_request = r]

\* websocket_synth_channel_stop (STOP and BARGE-IN-OCCURRED)
SynthStop(c, r) == [c EXCEPT !.stop_response = r]

\* websocket_synth_channel_pause
SynthPause(c) == [c EXCEPT !.paused = TRUE]

\* websocket_synth_channel_resume
SynthResume(c) == [c EXCEPT !.paused = FALSE]

\* websocket_synth_speak_complete: the test of speak_request
SpeakCompleteCheck(c) == c.speak_request # NoRequest

\* websocket_synth_speak_complete: speak_request = NULL before the send
SpeakCompleteClear(c) == [c EXCEPT !.speak_request = NoRequest]

\* websocket_synth_stream_read: the STOP branch
StreamReadFlush(c) ==
    [c EXCEPT !.stop_response = NoRequest, !.speak_request = NoRequest,
              !.paused = FALSE, !.audio_buffer_write_pos = 0,
              !.audio_buffer_read_pos = 0, !.audio_complete = FALSE]

\* websocket_synth_stream_read: available
SynthAvailable(c) == c.audio_buffer_write_pos - c.audio_buffer_read_pos

\* websocket_synth_stream_read: the branch that raises SPEAK-COMPLETE
StreamReadCompletes(c) ==
    /\ c.stop_response = NoRequest
    /\ c.speak_request # NoRequest /\ ~c.paused
    /\ SynthAvailable(c) < SynthFrameSize
    /\ c.audio_complete /\ SynthAvailable(c) = 0

\* a read callback that does not look at paused
StreamReadCopyWhilePaused(c) ==
    IF c.speak_request = NoRequest THEN c
    ELSE IF SynthAvailable(c) >= SynthFrameSize
        THEN [c EXCEPT !.audio_buffer_read_pos = @ + SynthFrameSize]
    ELSE IF c.audio_complete /\ SynthAvailable(c) > 0
        THEN [c EXCEPT !.audio_buffer_read_pos = @ + SynthAvailable(c)]
    ELSE c

\* websocket_synth_stream_read: the branches that copy audio into the frame
StreamReadCopy(c) ==
    IF c.speak_request = NoRequest \/ c.paused THEN c
    ELSE IF SynthAvailable(c) >= SynthFrameSize
        THEN [c EXCEPT !.audio_buffer_read_pos = @ + SynthFrameSize]
    ELSE IF c.audio_complete /\ SynthAvailable(c) > 0
        THEN [c EXCEPT !.audio_buffer_read_pos = @ + SynthAvailable(c)]
    ELSE c

\* websocket_synth_stream_read: the audio bytes copied into the frame
StreamReadBytes(c) == StreamReadCopy(c).audio_buffer_read_pos - c.audio_buffer_read_pos

\* websocket_synth_stream_read: what the callback does to the channel
StreamReadChannel(c) ==
    IF c.stop_response # NoRequest THEN StreamReadFlush(c) ELSE StreamReadCopy(c)

\* websocket_synth_stream_read: whether the callback writes into the frame
\* (audio, audio and padding, or silence on an underrun)
StreamReadWritesFrame(c) ==
    /\ c.stop_response = NoRequest
    /\ c.speak_request # NoRequest /\ ~c.paused
    /\ ~StreamReadCompletes(c)

\* websocket_synth_stream_read: the frame is filled up with zeros after the
\* audio (the memset of frame_size - available bytes)
StreamReadPads(c) == StreamReadBytes(c) > 0 /\ StreamReadBytes(c) < SynthFrameSize

\* what one turn of the while(1) loop of websocket_client_receive_audio can
\* meet on the socket; a frame is [opcode, payload_len]
SynthRecvErrors == {"timeout", "hdr_err", "ext_fail", "payload_fail"}
SynthOpcodes == {"continuation", "text", "text_done", "binary", "close", "ping", "pong"}

\* websocket_client_receive_audio without the test payload_len <= space
ReceiveAudioFrameNoSpaceCheck(c, opcode, payload_len) ==
    IF payload_len = 0 THEN c
    ELSE IF opcode \in {"binary", "continuation"}
        THEN [c EXCEPT !.audio_buffer_write_pos = @ + payload_len]
    ELSE IF opcode \in {"text_done", "close"} THEN [c EXCEPT !.audio_complete = TRUE]
    ELSE c

\* websocket_client_receive_audio: the frame's effect on the channel.
\* Opcodes are looked at only inside if (payload_len > 0).
ReceiveAudioFrame(c, opcode, payload_len) ==
    IF payload_len = 0 THEN c
    ELSE IF opcode \in {"binary", "continuation"} THEN
        IF payload_len <= SynthBufferSize - c.audio_buffer_write_pos
        THEN [c EXCEPT !.audio_buffer_write_pos = @ + payload_len]
        ELSE c
    ELSE IF opcode \in {"text_done", "close"} THEN [c EXCEPT !.audio_complete = TRUE]
    ELSE c

\* websocket_client_receive_audio returns after this frame
ReceiveAudioReturns(opcode, payload_len) ==
    payload_len > 0 /\ opcode \in {"text_done", "close"}

\* the fin, opcode and mask bits of a frame whose header starts with bytes b
SynthFrameBits(b) ==
    [opcode |-> HeaderOpcode(b), fin |-> HeaderFin(b), mask |-> HeaderMasked(b)]

\* websocket_client_send_text: frame_header[0] = 0x81 and
\* frame_header[1] = 0x80 | len (or 0xFE, 0xFF); the length bits are left out
SynthTextHeader == <<129, 128>>

\* websocket_client_receive_audio: unsigned char pong[2] = {0x8A, 0x00}
SynthPongHeader == <<138, 0>>

\* websocket_client_receive_audio: the frames it writes for the frame read
ReceiveAudioWrote(opcode, payload_len) ==
    IF payload_len > 0 /\ opcode = "ping" THEN {SynthFrameBits(SynthPongHeader)} ELSE {}

\* what the remote end lets a recv meet, by the state of the link
LinkAllows(link, o) ==
    CASE link = "up" -> TRUE
      [] link = "silent" -> o = "timeout"
      [] OTHER -> o = "hdr_err"

(***************************************************************************)
(* websocket_recog_engine.c                                                *)
(***************************************************************************)
\* send calls one thread makes on the shared WS client
MaxSends == 2

\* requests the host delivers to one recognizer channel
MaxRecogReq == 2

\* messages the media thread may have waiting in the task's queue
MaxRecogQueue == 2

\* audio_buffer_size (AUDIO_BUFFER_SIZE), scaled down
RecogBufferSize == 2

\* frame->codec_frame.size, scaled down
RecogFrameSize == 1

\* STREAM_CHUNK_SIZE, scaled down
StreamChunkSize == 2

RecogReqIds == 1..MaxRecogReq

\* request->start_line.method_id. GET_PARAMS and DEFINE_GRAMMAR do to the
\* channel what SET_PARAMS does (the response is sent, nothing else changes),
\* and so do the methods the switch does not handle.
RecogMethods == {"SET_PARAMS", "RECOGNIZE", "START_INPUT_TIMERS", "STOP"}

\* websocket_recog_engine_channel_create: the channel fields. expired stands
\* for apr_time_now() - recognize_start_time > MAX_RECOGNIZE_DURATION.
RecogChannelCreate(streaming) ==
    [recog_request |-> NoRequest, stop_response |-> NoRequest,
     timers_started |-> FALSE, speech_started |-> FALSE,
     waiting_result |-> FALSE, audio_buffer_pos |-> 0, stream_pos |-> 0,
     streaming_enabled |-> streaming, expired |-> TRUE]

\* websocket_recog_channel_recognize: timers_started, written before the
\* connection is attempted
RecognizeTimers(c, start_input_timers) ==
    [c EXCEPT !.timers_started = start_input_timers]

\* a failed RECOGNIZE that stores its request all the same
RecognizeRejectStores(c, r) == [c EXCEPT !.recog_request = r]

\* websocket_recog_channel_recognize: the reset and the store of the request
\* once ws_client_ensure_connected has returned TRUE
RecognizeAccept(c, r) ==
    [c EXCEPT !.audio_buffer_pos = 0, !.stream_pos = 0,
              !.speech_started = FALSE, !.waiting_result = FALSE,
              !.expired = FALSE, !.recog_request = r]

\* websocket_recog_channel_recognize when ws_client_ensure_connected has
\* returned FALSE: the function returns before the reset and before the store
\* of the request
RecognizeReject(c, r) == c

\* websocket_recog_start_of_input: the request the START-OF-INPUT event is
\* sent for, none when no request is stored
StartOfInputFor(c) ==
    IF c.recog_request = NoRequest THEN {} ELSE {c.recog_request}

\* websocket_recog_channel_stop
RecogStop(c, r) == [c EXCEPT !.stop_response = r]

\* a no-input event that completes the request whatever timers_started is
NoInputCompletesAlways(c) == TRUE

\* websocket_recog_stream_write, case MPF_DETECTOR_EVENT_NOINPUT: the event
\* completes the request only if (recog_channel->timers_started)
NoInputCompletes(c) == c.timers_started

\* websocket_recog_channel_timers_start
RecogTimersStart(c) == [c EXCEPT !.timers_started = TRUE]

\* websocket_recog_recognition_complete: the test of recog_request
RecognitionCompleteCheck(c) == c.recog_request # NoRequest

\* websocket_recog_recognition_complete: the fields cleared before the send
RecognitionCompleteClear(c) ==
    [c EXCEPT !.recog_request = NoRequest, !.waiting_result = FALSE]

\* websocket_recog_stream_write: the STOP branch
StreamWriteFlush(c) ==
    [c EXCEPT !.stop_response = NoRequest, !.recog_request = NoRequest]

\* mpf_activity_detector_process: the events the detector can raise for a
\* frame, by whether it is inside an utterance
DetectorEvents(d) ==
    IF d = "inactivity" THEN {"NONE", "ACTIVITY", "NOINPUT"}
    ELSE {"NONE", "INACTIVITY"}

\* the detector after the event
DetectorNext(d, ev) ==
    IF ev = "ACTIVITY" THEN "activity"
    ELSE IF ev = "INACTIVITY" THEN "inactivity"
    ELSE d

\* websocket_recog_stream_write: the copy of the frame into the buffer
BufferWrite(c, size) ==
    LET remaining == RecogBufferSize - c.audio_buffer_pos
        to_copy == IF size > remaining THEN remaining ELSE size
    IN [c EXCEPT !.audio_buffer_pos = @ + to_copy]

\* websocket_recog_stream_write: a chunk is posted (unsent is an apr_size_t:
\* audio_buffer_pos - stream_pos wraps to a huge value if stream_pos is ahead)
StreamChunkDue(c) ==
    /\ c.streaming_enabled /\ c.speech_started
    /\ (c.stream_pos > c.audio_buffer_pos
        \/ c.audio_buffer_pos - c.stream_pos >= StreamChunkSize)

\* websocket_recog_stream_write: stream_pos += STREAM_CHUNK_SIZE. Positions
\* past the end of the buffer are kept as one value, the first of them.
StreamAdvance(c) ==
    LET p == c.stream_pos + StreamChunkSize
    IN [c EXCEPT !.stream_pos = IF p > RecogBufferSize THEN RecogBufferSize + 1 ELSE p]

\* WEBSOCKET_RECOG_MSG_SEND_AUDIO: the buffer is cleared
SendAudioClear(c) == [c EXCEPT !.audio_buffer_pos = 0, !.stream_pos = 0]

\* the length handed to ws_client_send_binary, as the WS client model sees
\* it: AUDIO_BUFFER_SIZE is below WS_DEFAULT_MAX_FRAME_SIZE, so a non-empty
\* buffer or chunk is never oversize
BinaryLen(n) == IF n > 0 THEN 1 ELSE 0

(***************************************************************************)
(* The WS client alone: one caller making any sequence of public calls     *)
(***************************************************************************)
\* what the caller of the public call that returned last saw and what the
\* call did on the socket: calls and fails count the ws_client_connect calls
\* made by ws_client_connect_with_retry, wrote is the frames handed to the
\* socket, sock what the socket did, frame the opcode of the frame returned,
\* pending a ping read whose pong has not been sent yet, bare the fields of
\* the client the call read or wrote while it did not hold client->mutex,
\* taken the bytes of the stream a receive took from the socket
WsReturn ==
    [op |-> "create", ret |-> TRUE, pre |-> "disconnected", calls |-> 0, fails |-> 0,
     send_close |-> FALSE, len |-> 0, wrote |-> <<>>, sock |-> "none",
     frame |-> "none", pending |-> FALSE, bare |-> {}, taken |-> 0]

WsInit ==
    /\ ws = WsCreate
    /\ wsLast = WsReturn
    /\ wsLoop = -1

WsIdle == wsLoop = -1 /\ ~ws.destroyed /\ ~wsLast.pending

WsConnect ==
    \E o \in ConnectOutcomes :
        /\ WsIdle
        /\ ConnectOutcomeOk(ws, o)
        /\ ws' = Connect(ws, o)
        /\ wsLast' = [WsReturn EXCEPT !.op = "connect", !.ret = ConnectRet(ws, o),
                                      !.pre = ws.state]
        /\ UNCHANGED <<wsLoop, wsMutex, synthVars, recogVars, fr, bw, je, tx>>

\* a loop that makes one attempt too many
RetryAgainOnceMore(i) == i <= max_retries

\* ws_client_connect_with_retry: after failed attempt i the loop goes on
RetryAgain(i) == i < max_retries

\* one turn of the for loop of ws_client_connect_with_retry
RetryTurn(i, o) ==
    LET w == Connect(ws, o)
        r == [WsReturn EXCEPT !.pre = ws.state, !.calls = i + 1]
    IN
    IF ConnectRet(ws, o) THEN
        /\ ws' = w
        /\ wsLast' = [r EXCEPT !.op = "connect_with_retry", !.ret = TRUE, !.fails = i]
        /\ wsLoop' = -1
    ELSE
        /\ ws' = [w EXCEPT !.retry_count = i + 1]
        /\ IF RetryAgain(i)
           THEN /\ wsLast' = [r EXCEPT !.op = "connect", !.ret = FALSE, !.fails = i + 1,
                                       !.bare = {"retry_count"}]
                /\ wsLoop' = i + 1
           ELSE /\ wsLast' = [r EXCEPT !.op = "connect_with_retry", !.ret = FALSE,
                                       !.fails = i + 1, !.bare = {"retry_count"}]
                /\ wsLoop' = -1

WsConnectWithRetry ==
    \E o \in ConnectOutcomes :
        /\ ~ws.destroyed /\ ~wsLast.pending
        /\ ConnectOutcomeOk(ws, o)
        /\ RetryTurn(IF wsLoop = -1 THEN 0 ELSE wsLoop, o)
        /\ UNCHANGED <<wsMutex, synthVars, recogVars, fr, bw, je, tx>>

WsEnsureConnected ==
    /\ WsIdle
    /\ IsConnected(ws)
    /\ wsLast' = [WsReturn EXCEPT !.op = "ensure_connected", !.pre = ws.state]
    /\ UNCHANGED <<ws, wsLoop, wsMutex, synthVars, recogVars, fr, bw, je, tx>>

WsDisconnect ==
    \E send_close \in BOOLEAN :
        /\ WsIdle
        /\ ws' = Disconnect(ws, send_close)
        /\ wsLast' = [WsReturn EXCEPT !.op = "disconnect", !.pre = ws.state,
                                      !.send_close = send_close,
                                      !.wrote = DisconnectWrote(ws, send_close)]
        /\ UNCHANGED <<wsLoop, wsMutex, synthVars, recogVars, fr, bw, je, tx>>

\* ws_client_send_text, ws_client_send_binary, ws_client_send_ping (no
\* payload) and ws_client_send_close (code 0: no payload; a code and no
\* reason: the two code bytes)
WsSend ==
    \E op \in {"text", "binary", "ping", "close"},
       len \in 0..(max_frame_size + 1), o \in SendOutcomes :
        /\ WsIdle
        /\ op = "ping" => len = 0
        /\ op = "close" => len \in {ClosePayloadLen(0, -1), ClosePayloadLen(1000, -1)}
        /\ ws' = SendFrame(ws, len, o)
        /\ wsLast' = [WsReturn EXCEPT !.op = "send_" \o op, !.ret = SendRet(ws, len, o),
                                      !.pre = ws.state, !.len = len,
                                      !.wrote = SendWrote(ws, op, len, "data"),
                                      !.sock = SendSock(ws, len, o)]
        /\ UNCHANGED <<wsLoop, wsMutex, synthVars, recogVars, fr, bw, je, tx>>

WsSendOps == {"send_text", "send_binary", "send_ping", "send_close"}

\* ws_client_receive_frame, up to its return or, for a ping, up to the call
\* of ws_client_send_frame for the pong
WsReceive ==
    \E o \in RecvOutcomes, len \in 0..max_frame_size, why \in {"timeout", "error"} :
        /\ WsIdle
        /\ o \in {"timeout", "hdr_err", "partial", "ext_fail", "oversize"} => len = 0
        /\ o \notin {"ext_fail", "mask_fail", "payload_fail"} => why = "error"
        /\ ws' = ReceiveRead(ws, o)
        /\ wsLast' = [WsReturn EXCEPT !.op = "receive_frame", !.ret = ReceiveRet(ws, o),
                                      !.pre = ws.state, !.len = len,
                                      !.sock = ReceiveSock(ws, o, why),
                                      !.frame = IF ReceiveRet(ws, o) THEN o ELSE "none",
                                      !.pending = PingRead(ws, o),
                                      !.taken = ReceiveConsumed(ws, o, len)]
        /\ wsMutex' = IF PingRead(ws, o) THEN PingReplyMutex ELSE wsMutex
        /\ UNCHANGED <<wsLoop, synthVars, recogVars, fr, bw, je, tx>>

\* ws_client_receive_frame after a ping: ws_client_send_frame takes the
\* mutex and sends the pong, then ws_client_receive_frame returns
WsPong ==
    \E so \in SendOutcomes :
        /\ wsLast.pending
        /\ wsMutex = "free"
        /\ ws' = SendFrame(ws, wsLast.len, so)
        /\ wsLast' = [wsLast EXCEPT !.pending = FALSE,
                                    !.wrote = SendWrote(ws, "pong", wsLast.len, "frame"),
                                    !.sock = SendSock(ws, wsLast.len, so)]
        /\ UNCHANGED <<wsLoop, wsMutex, synthVars, recogVars, fr, bw, je, tx>>

\* ws_client_get_error: client->state is read with no lock taken
WsGetError ==
    /\ WsIdle
    /\ wsLast' = [WsReturn EXCEPT !.op = "get_error", !.pre = ws.state,
                                  !.bare = {"state"}]
    /\ UNCHANGED <<ws, wsLoop, wsMutex, synthVars, recogVars, fr, bw, je, tx>>

WsDestroy ==
    /\ WsIdle
    /\ ws' = Destroy(ws)
    /\ wsLast' = [WsReturn EXCEPT !.op = "destroy", !.pre = ws.state,
                                  !.send_close = TRUE,
                                  !.wrote = DisconnectWrote(ws, TRUE)]
    /\ UNCHANGED <<wsLoop, wsMutex, synthVars, recogVars, fr, bw, je, tx>>

WsNext ==
    \/ WsConnect
    \/ WsConnectWithRetry
    \/ WsEnsureConnected
    \/ WsDisconnect
    \/ WsSend
    \/ WsReceive
    \/ WsPong
    \/ WsGetError
    \/ WsDestroy

(***************************************************************************)
(* The synthesizer channel: the host posting requests, the background task *)
(* (websocket_synth_msg_process), the media thread                         *)
(* (websocket_synth_stream_read) and the remote service                    *)
(***************************************************************************)
SynthInit ==
    /\ sc = SynthChannelCreate
    /\ sws = SynthClientCreate
    /\ sq = <<>>
    /\ st = [pc |-> "idle", cause |-> "NONE", cap |-> NoRequest, gotBinary |-> FALSE]
    /\ sm = [pc |-> "idle", cap |-> NoRequest]
    /\ sNext = 1
    /\ sResp = [r \in SynthReqIds |-> 0]
    /\ sDone = [r \in SynthReqIds |-> 0]
    /\ sCause = [r \in SynthReqIds |-> "NONE"]
    /\ sLog = [accepted |-> {}, stopped |-> {}, superseded |-> {}, failedMid |-> {},
               wrote |-> {}, appended |-> 0, copied |-> 0, padded |-> 0,
               empty |-> {}, emptyNet |-> {}, netFailed |-> FALSE]

SynthTaskIdle == [pc |-> "idle", cause |-> "NONE", cap |-> NoRequest, gotBinary |-> FALSE]

SynthMediaIdle == [pc |-> "idle", cap |-> NoRequest]

\* the request a field points to, as a set
Active(r) == IF r = NoRequest THEN {} ELSE {r}

\* websocket_synth_channel_request_process: the host's request is posted to
\* the task as WEBSOCKET_SYNTH_MSG_REQUEST_PROCESS
SynthRequestProcess ==
    \E m \in SynthMethods :
        /\ sNext <= MaxSynthReq
        /\ sq' = Append(sq, [type |-> "REQUEST_PROCESS", req |-> sNext, method |-> m])
        /\ sNext' = sNext + 1
        /\ UNCHANGED <<sc, sws, st, sm, sResp, sDone, sCause, sLog, wsVars, wsMutex, recogVars, fr, bw, je, tx>>

\* WEBSOCKET_SYNTH_MSG_REQUEST_PROCESS: websocket_synth_channel_request_dispatch
SynthDispatch ==
    /\ st.pc = "idle"
    /\ sq # <<>>
    /\ Head(sq).type = "REQUEST_PROCESS"
    /\ LET r == Head(sq).req
           m == Head(sq).method
       IN \E descriptor \in BOOLEAN :
           IF m = "SPEAK" /\ descriptor THEN
               /\ sc' = SynthSpeak(sc, r)
               /\ sResp' = [sResp EXCEPT ![r] = @ + 1]
               /\ sq' = Append(Tail(sq), [type |-> "SPEAK_REQUEST", req |-> r, method |-> m])
               /\ sLog' = [sLog EXCEPT !.accepted = @ \cup {r},
                                       !.superseded = @ \cup Active(sc.speak_request),
                                       !.appended = 0, !.copied = 0, !.padded = 0]
           ELSE IF m \in {"STOP", "BARGE_IN_OCCURRED"} THEN
               /\ sc' = SynthStop(sc, r)
               /\ sq' = Tail(sq)
               /\ sLog' = [sLog EXCEPT !.stopped = @ \cup Active(sc.speak_request)]
               /\ UNCHANGED sResp
           ELSE
               /\ sc' = IF m = "PAUSE" THEN SynthPause(sc)
                        ELSE IF m = "RESUME" THEN SynthResume(sc)
                        ELSE sc
               /\ sResp' = [sResp EXCEPT ![r] = @ + 1]
               /\ sq' = Tail(sq)
               /\ UNCHANGED sLog
    /\ UNCHANGED <<sws, st, sm, sNext, sDone, sCause, wsVars, wsMutex, recogVars, fr, bw, je, tx>>

\* what the socket calls made by websocket_client_connect can do
SynthConnectOutcomes ==
    {"create_fail", "resolve_fail", "connect_fail", "send_fail", "recv_fail", "no_101", "ok"}

\* WEBSOCKET_SYNTH_MSG_SPEAK_REQUEST, up to the call of
\* websocket_client_receive_audio or of websocket_synth_speak_complete
SynthSpeakRequest ==
    /\ st.pc = "idle"
    /\ sq # <<>>
    /\ Head(sq).type = "SPEAK_REQUEST"
    /\ \E co \in SynthConnectOutcomes, text_empty \in BOOLEAN, so \in SynthSendOutcomes :
           LET c == SynthConnect(sws, co) IN
           /\ sws' = c
           /\ st' = IF SynthConnectRet(sws, co) /\ ~text_empty /\ SynthSendRet(c, so)
                    THEN [SynthTaskIdle EXCEPT !.pc = "recv"]
                    ELSE [SynthTaskIdle EXCEPT !.pc = "check", !.cause = "ERROR"]
           /\ sLog' = IF SynthConnectRet(sws, co) /\ ~text_empty
                      THEN [sLog EXCEPT !.wrote = @ \cup {SynthFrameBits(SynthTextHeader)},
                                        !.netFailed = (@ /\ ~SynthConnectCalled(sws))
                                                      \/ ~SynthSendRet(c, so)]
                      ELSE IF text_empty
                      THEN [sLog EXCEPT
                               !.empty = @ \cup {Head(sq).req},
                               !.emptyNet = @ \cup (IF SynthConnectCalled(sws)
                                                    THEN {Head(sq).req} ELSE {})]
                      ELSE sLog
    /\ sq' = Tail(sq)
    /\ UNCHANGED <<sc, sm, sNext, sResp, sDone, sCause, wsVars, wsMutex, recogVars, fr, bw, je, tx>>

\* one turn of the while(1) loop of websocket_client_receive_audio
SynthReceiveAudio ==
    /\ st.pc = "recv"
    /\ \E o \in SynthRecvErrors \cup SynthOpcodes, payload_len \in 0..MaxPayload :
        /\ LinkAllows(sws.link, o)
        /\ IF o = "timeout" THEN
               UNCHANGED <<sc, st, sLog>>
           ELSE IF o \in SynthRecvErrors THEN
               /\ st' = SynthTaskIdle
               /\ sLog' = [sLog EXCEPT
                              !.failedMid = IF st.gotBinary
                                            THEN @ \cup Active(sc.speak_request) ELSE @,
                              !.netFailed = TRUE]
               /\ UNCHANGED sc
           ELSE
               /\ sc' = ReceiveAudioFrame(sc, o, payload_len)
               /\ st' = IF ReceiveAudioReturns(o, payload_len) THEN SynthTaskIdle
                        ELSE [st EXCEPT !.gotBinary = @ \/ (o = "binary" /\ payload_len > 0)]
               /\ sLog' = [sLog EXCEPT
                              !.wrote = @ \cup ReceiveAudioWrote(o, payload_len),
                              !.appended = @ + ReceiveAudioFrame(sc, o, payload_len).audio_buffer_write_pos
                                             - sc.audio_buffer_write_pos]
    /\ UNCHANGED <<sws, sq, sm, sNext, sResp, sDone, sCause, wsVars, wsMutex, recogVars, fr, bw, je, tx>>

\* websocket_synth_speak_complete called by the task: the test
SynthTaskCompleteCheck ==
    /\ st.pc = "check"
    /\ st' = IF SpeakCompleteCheck(sc)
             THEN [st EXCEPT !.pc = "send", !.cap = sc.speak_request]
             ELSE SynthTaskIdle
    /\ UNCHANGED <<sc, sws, sq, sm, sNext, sResp, sDone, sCause, sLog, wsVars, wsMutex, recogVars, fr, bw, je, tx>>

\* websocket_synth_speak_complete called by the task: clear and send
SynthTaskCompleteSend ==
    /\ st.pc = "send"
    /\ sc' = SpeakCompleteClear(sc)
    /\ sDone' = [sDone EXCEPT ![st.cap] = @ + 1]
    /\ sCause' = [sCause EXCEPT ![st.cap] = st.cause]
    /\ st' = SynthTaskIdle
    /\ UNCHANGED <<sws, sq, sm, sNext, sResp, sLog, wsVars, wsMutex, recogVars, fr, bw, je, tx>>

\* websocket_synth_stream_read, up to the call of websocket_synth_speak_complete
SynthStreamRead ==
    /\ sm.pc = "idle"
    /\ IF sc.stop_response # NoRequest THEN
           /\ sResp' = [sResp EXCEPT ![sc.stop_response] = @ + 1]
           /\ sc' = StreamReadFlush(sc)
           /\ sLog' = [sLog EXCEPT !.stopped = @ \cup Active(sc.speak_request),
                                   !.appended = 0, !.copied = 0, !.padded = 0]
           /\ UNCHANGED sm
       ELSE IF StreamReadCompletes(sc) THEN
           /\ sm' = [sm EXCEPT !.pc = "check"]
           /\ UNCHANGED <<sc, sResp, sLog>>
       ELSE
           /\ sc' = StreamReadCopy(sc)
           /\ sLog' = [sLog EXCEPT !.copied = @ + StreamReadBytes(sc),
                                   !.padded = @ + (IF StreamReadPads(sc) THEN 1 ELSE 0)]
           /\ UNCHANGED <<sm, sResp>>
    /\ UNCHANGED <<sws, sq, st, sNext, sDone, sCause, wsVars, wsMutex, recogVars, fr, bw, je, tx>>

\* websocket_synth_speak_complete called by the media thread: the test
SynthMediaCompleteCheck ==
    /\ sm.pc = "check"
    /\ sm' = IF SpeakCompleteCheck(sc)
             THEN [pc |-> "send", cap |-> sc.speak_request]
             ELSE SynthMediaIdle
    /\ UNCHANGED <<sc, sws, sq, st, sNext, sResp, sDone, sCause, sLog, wsVars, wsMutex, recogVars, fr, bw, je, tx>>

\* websocket_synth_speak_complete called by the media thread: clear and send
SynthMediaCompleteSend ==
    /\ sm.pc = "send"
    /\ sc' = SpeakCompleteClear(sc)
    /\ sDone' = [sDone EXCEPT ![sm.cap] = @ + 1]
    /\ sCause' = [sCause EXCEPT ![sm.cap] = "NORMAL"]
    /\ sm' = SynthMediaIdle
    /\ UNCHANGED <<sws, sq, st, sNext, sResp, sLog, wsVars, wsMutex, recogVars, fr, bw, je, tx>>

\* the remote service stops sending
SynthLinkSilent ==
    /\ sws.link = "up"
    /\ sws' = [sws EXCEPT !.link = "silent"]
    /\ UNCHANGED <<sc, sq, st, sm, sNext, sResp, sDone, sCause, sLog, wsVars, wsMutex, recogVars, fr, bw, je, tx>>

\* the remote service drops the TCP connection
SynthLinkDrop ==
    /\ sws.link \in {"up", "silent"}
    /\ sws' = [sws EXCEPT !.link = "dead"]
    /\ UNCHANGED <<sc, sq, st, sm, sNext, sResp, sDone, sCause, sLog, wsVars, wsMutex, recogVars, fr, bw, je, tx>>

\* the background task: one consumer of the queue, one message at a time
SynthTask ==
    \/ SynthDispatch
    \/ SynthSpeakRequest
    \/ SynthReceiveAudio
    \/ SynthTaskCompleteCheck
    \/ SynthTaskCompleteSend

\* the media thread: one callback at a time
SynthMedia ==
    \/ SynthStreamRead
    \/ SynthMediaCompleteCheck
    \/ SynthMediaCompleteSend

SynthNext ==
    \/ SynthRequestProcess
    \/ SynthTask
    \/ SynthMedia
    \/ SynthLinkSilent
    \/ SynthLinkDrop

(***************************************************************************)
(* The recognizer channel: the host posting requests, the background task  *)
(* (websocket_recog_msg_process), the media thread                         *)
(* (websocket_recog_stream_write), the detector and the clock              *)
(***************************************************************************)
RecogTaskIdle ==
    [pc |-> "idle", req |-> NoRequest, i |-> 0, cause |-> "NONE",
     cap |-> NoRequest, after |-> "idle"]

RecogMediaIdle == [pc |-> "idle", cause |-> "NONE", cap |-> NoRequest]

RecogInit ==
    /\ wsMutex = "free"
    /\ rc \in {RecogChannelCreate(streaming) : streaming \in BOOLEAN}
    /\ det = "inactivity"
    /\ rq = <<>>
    /\ rt = RecogTaskIdle
    /\ rm = RecogMediaIdle
    /\ rNext = 1
    /\ rResp = [r \in RecogReqIds |-> 0]
    /\ rDone = [r \in RecogReqIds |-> 0]
    /\ rLog = [failed |-> {}, soi |-> {}, soiAgain |-> {}, soiLate |-> {},
               stopped |-> {}, stopTarget |-> NoRequest,
               streamed |-> FALSE, stale |-> 0,
               status |-> [r \in RecogReqIds |-> "none"]]

\* the variables no recognizer action touches
notRecogVars == <<wsLast, wsLoop, synthVars, fr, bw, je, tx>>

\* a task message
RecogMsg(type, r, m, len) == [type |-> type, req |-> r, method |-> m, len |-> len]

\* websocket_recog_msg_signal_audio: the message carries a pointer into the
\* channel's audio buffer (pos is its offset) and a length, no copy of the bytes
RecogAudioMsg(pos, len) ==
    [type |-> "STREAM_AUDIO", req |-> NoRequest, method |-> "NONE", len |-> len,
     pos |-> pos]

\* the STREAM_AUDIO messages waiting in a queue
StreamAudioQueued(q) == Cardinality({i \in 1..Len(q) : q[i].type = "STREAM_AUDIO"})

\* the buffer positions were reset: no byte now in the buffer has been
\* streamed, and the chunks still queued point at what was there before
BufferResetLog(l, q) == [l EXCEPT !.streamed = FALSE, !.stale = StreamAudioQueued(q)]

\* websocket_recog_channel_request_process: the host's request is posted to
\* the task as WEBSOCKET_RECOG_MSG_REQUEST_PROCESS
RecogRequestProcess ==
    \E m \in RecogMethods :
        /\ rNext <= MaxRecogReq
        /\ rq' = Append(rq, RecogMsg("REQUEST_PROCESS", rNext, m, 0))
        /\ rNext' = rNext + 1
        /\ UNCHANGED <<ws, wsMutex, rc, det, rt, rm, rResp, rDone, rLog, notRecogVars>>

\* the tail of websocket_recog_channel_recognize once the client is connected:
\* reset, in-progress response, recog_request = request
RecognizeFinish(c, r) ==
    /\ rc' = RecognizeAccept(c, r)
    /\ rResp' = [rResp EXCEPT ![r] = @ + 1]

\* WEBSOCKET_RECOG_MSG_REQUEST_PROCESS: websocket_recog_channel_request_dispatch.
\* RECOGNIZE runs up to the result of ws_client_is_connected inside
\* ws_client_ensure_connected, which takes the client's mutex.
RecogDispatch ==
    /\ rt.pc = "idle"
    /\ rq # <<>>
    /\ Head(rq).type = "REQUEST_PROCESS"
    /\ rq' = Tail(rq)
    /\ LET r == Head(rq).req
           m == Head(rq).method
       IN \E descriptor \in BOOLEAN, start_input_timers \in BOOLEAN :
           IF m = "RECOGNIZE" /\ descriptor THEN
               /\ wsMutex = "free"
               /\ IF IsConnected(ws) THEN
                      /\ RecognizeFinish(RecognizeTimers(rc, start_input_timers), r)
                      /\ rLog' = [BufferResetLog(rLog, rq) EXCEPT !.status[r] = "success"]
                      /\ UNCHANGED rt
                  ELSE
                      /\ rc' = RecognizeTimers(rc, start_input_timers)
                      /\ rt' = [RecogTaskIdle EXCEPT !.pc = "connect", !.req = r]
                      /\ UNCHANGED <<rResp, rLog>>
           ELSE IF m = "STOP" THEN
               /\ rc' = RecogStop(rc, r)
               /\ rLog' = [rLog EXCEPT !.stopTarget = rc.recog_request]
               /\ UNCHANGED <<rt, rResp>>
           ELSE
               /\ rc' = IF m = "START_INPUT_TIMERS" THEN RecogTimersStart(rc) ELSE rc
               /\ rResp' = [rResp EXCEPT ![r] = @ + 1]
               /\ rLog' = [rLog EXCEPT !.status[r] =
                               IF m = "RECOGNIZE" THEN "method-failed" ELSE "success"]
               /\ UNCHANGED rt
    /\ UNCHANGED <<ws, wsMutex, det, rm, rNext, rDone, notRecogVars>>

\* ws_client_connect_with_retry, turn i: ws_client_connect takes the mutex
\* and sets state = CONNECTING
RecogConnectBegin ==
    /\ rt.pc = "connect"
    /\ wsMutex = "free"
    /\ wsMutex' = "task"
    /\ ws' = ConnectBegin(ws)
    /\ rt' = [rt EXCEPT !.pc = "connecting"]
    /\ UNCHANGED <<rc, det, rq, rm, rNext, rResp, rDone, rLog, notRecogVars>>

\* ws_client_connect_with_retry, turn i: the socket calls of ws_client_connect
\* made with the mutex held, the unlock, and what the loop and
\* websocket_recog_channel_recognize do with the result
RecogConnectEnd ==
    /\ rt.pc = "connecting"
    /\ wsMutex' = "free"
    /\ \E o \in ConnectOutcomes :
        /\ ConnectOutcomeOk(ws, o)
        /\ IF ConnectRet(ws, o) THEN
               /\ ws' = ConnectEnd(ws, o)
               /\ RecognizeFinish(rc, rt.req)
               /\ rLog' = [BufferResetLog(rLog, rq) EXCEPT !.status[rt.req] = "success"]
               /\ rt' = RecogTaskIdle
           ELSE
               /\ ws' = [ConnectEnd(ws, o) EXCEPT !.retry_count = rt.i + 1]
               /\ IF rt.i < max_retries
                  THEN /\ rt' = [rt EXCEPT !.pc = "connect", !.i = @ + 1]
                       /\ UNCHANGED <<rc, rResp, rLog>>
                  ELSE /\ rt' = RecogTaskIdle
                       /\ rc' = RecognizeReject(rc, rt.req)
                       /\ rResp' = [rResp EXCEPT ![rt.req] = @ + 1]
                       /\ rLog' = [rLog EXCEPT !.failed = @ \cup {rt.req},
                                               !.status[rt.req] = "method-failed"]
    /\ UNCHANGED <<det, rq, rm, rNext, rDone, notRecogVars>>

\* WEBSOCKET_RECOG_MSG_SEND_AUDIO, up to the call of
\* websocket_recog_recognition_complete or to the clearing of the buffer
RecogSendAudio ==
    /\ rt.pc = "idle"
    /\ rq # <<>>
    /\ Head(rq).type = "SEND_AUDIO"
    /\ wsMutex = "free"
    /\ IF rc.audio_buffer_pos > 0 /\ IsConnected(ws) THEN
           \E o \in SendOutcomes :
               LET len == BinaryLen(rc.audio_buffer_pos) IN
               /\ ws' = SendFrame(ws, len, o)
               /\ IF SendRet(ws, len, o) THEN
                      /\ rc' = [rc EXCEPT !.waiting_result = TRUE]
                      /\ rq' = Append(Tail(rq), RecogMsg("RECV_RESULT", NoRequest, "NONE", 0))
                      /\ rt' = [RecogTaskIdle EXCEPT !.pc = "clear"]
                  ELSE
                      /\ rt' = [RecogTaskIdle EXCEPT !.pc = "check", !.cause = "ERROR",
                                                     !.after = "clear"]
                      /\ rq' = Tail(rq)
                      /\ UNCHANGED rc
       ELSE
           /\ rt' = [RecogTaskIdle EXCEPT !.pc = "check", !.cause = "SUCCESS",
                                          !.after = "clear"]
           /\ rq' = Tail(rq)
           /\ UNCHANGED <<ws, rc>>
    /\ UNCHANGED <<wsMutex, det, rm, rNext, rResp, rDone, rLog, notRecogVars>>

\* WEBSOCKET_RECOG_MSG_SEND_AUDIO: the buffer is cleared under the channel mutex
RecogSendAudioClear ==
    /\ rt.pc = "clear"
    /\ rc' = SendAudioClear(rc)
    /\ rLog' = BufferResetLog(rLog, rq)
    /\ rt' = RecogTaskIdle
    /\ UNCHANGED <<ws, wsMutex, det, rq, rm, rNext, rResp, rDone, notRecogVars>>

\* WEBSOCKET_RECOG_MSG_STREAM_AUDIO: the result of the send is not looked at
RecogStreamAudio ==
    /\ rt.pc = "idle"
    /\ rq # <<>>
    /\ Head(rq).type = "STREAM_AUDIO"
    /\ wsMutex = "free"
    /\ rq' = Tail(rq)
    /\ IF Head(rq).len > 0 /\ IsConnected(ws)
       THEN \E o \in SendOutcomes :
               LET len == BinaryLen(Head(rq).len) IN
               /\ ws' = SendFrame(ws, len, o)
               /\ rLog' = [rLog EXCEPT
                      !.streamed = @ \/ (SendRet(ws, len, o) /\ rLog.stale = 0),
                      !.stale = IF @ > 0 THEN @ - 1 ELSE 0]
       ELSE /\ rLog' = [rLog EXCEPT !.stale = IF @ > 0 THEN @ - 1 ELSE 0]
            /\ UNCHANGED ws
    /\ UNCHANGED <<wsMutex, rc, det, rt, rm, rNext, rResp, rDone, notRecogVars>>

\* WEBSOCKET_RECOG_MSG_RECV_RESULT, up to the call of
\* websocket_recog_recognition_complete or to the next poll being posted
RecogRecvResult ==
    /\ rt.pc = "idle"
    /\ rq # <<>>
    /\ Head(rq).type = "RECV_RESULT"
    /\ IF ~rc.waiting_result \/ rc.recog_request = NoRequest THEN
           /\ rq' = Tail(rq)
           /\ UNCHANGED <<ws, rt>>
       ELSE IF rc.expired THEN
           /\ rq' = Tail(rq)
           /\ rt' = [RecogTaskIdle EXCEPT !.pc = "check", !.cause = "ERROR"]
           /\ UNCHANGED ws
       ELSE
           /\ wsMutex = "free"
           /\ \E o \in RecvOutcomes, so \in SendOutcomes, payload_len \in 0..1 :
               /\ ws' = ReceiveFrame(ws, o, payload_len, so)
               /\ IF ReceiveRet(ws, o) /\ o = "text" /\ payload_len > 0 THEN
                      /\ rq' = Tail(rq)
                      /\ rt' = [RecogTaskIdle EXCEPT !.pc = "check", !.cause = "SUCCESS"]
                  ELSE IF ReceiveRet(ws, o) /\ o = "close" THEN
                      /\ rq' = Tail(rq)
                      /\ rt' = [RecogTaskIdle EXCEPT !.pc = "check", !.cause = "ERROR"]
                  ELSE
                      /\ rq' = Append(Tail(rq), Head(rq))
                      /\ UNCHANGED rt
    /\ UNCHANGED <<wsMutex, rc, det, rm, rNext, rResp, rDone, rLog, notRecogVars>>

\* websocket_recog_recognition_complete called by the task: the test
RecogTaskCompleteCheck ==
    /\ rt.pc = "check"
    /\ rt' = IF RecognitionCompleteCheck(rc)
             THEN [rt EXCEPT !.pc = "send", !.cap = rc.recog_request]
             ELSE [RecogTaskIdle EXCEPT !.pc = rt.after]
    /\ UNCHANGED <<ws, wsMutex, rc, det, rq, rm, rNext, rResp, rDone, rLog, notRecogVars>>

\* websocket_recog_recognition_complete called by the task: clear and send
RecogTaskCompleteSend ==
    /\ rt.pc = "send"
    /\ rc' = RecognitionCompleteClear(rc)
    /\ rDone' = [rDone EXCEPT ![rt.cap] = @ + 1]
    /\ rt' = [RecogTaskIdle EXCEPT !.pc = rt.after]
    /\ UNCHANGED <<ws, wsMutex, det, rq, rm, rNext, rResp, rLog, notRecogVars>>

\* websocket_recog_stream_write, up to the call of ws_client_is_connected
RecogStreamWrite ==
    /\ rm.pc = "idle"
    /\ IF rc.stop_response # NoRequest THEN
           /\ rResp' = [rResp EXCEPT ![rc.stop_response] = @ + 1]
           /\ rc' = StreamWriteFlush(rc)
           /\ rLog' = [rLog EXCEPT !.stopped = @ \cup ({rc.recog_request} \ {NoRequest})]
           /\ UNCHANGED rm
       ELSE IF rc.recog_request = NoRequest THEN
           UNCHANGED <<rc, rm, rResp, rLog>>
       ELSE
           /\ rm' = [rm EXCEPT !.pc = "lock"]
           /\ UNCHANGED <<rc, rResp, rLog>>
    /\ UNCHANGED <<ws, wsMutex, det, rq, rt, rNext, rDone, notRecogVars>>

\* ws_client_is_connected called by the media thread: apr_thread_mutex_lock
RecogMediaLock ==
    /\ rm.pc = "lock"
    /\ wsMutex = "free"
    /\ wsMutex' = "media"
    /\ rm' = [rm EXCEPT !.pc = "locked"]
    /\ UNCHANGED <<ws, rc, det, rq, rt, rNext, rResp, rDone, rLog, notRecogVars>>

\* ws_client_is_connected called by the media thread: the state is read and
\* the mutex released; a client that is not connected ends the callback
RecogMediaUnlock ==
    /\ rm.pc = "locked"
    /\ wsMutex' = "free"
    /\ rm' = [rm EXCEPT !.pc = IF IsConnected(ws) THEN "vad" ELSE "idle"]
    /\ UNCHANGED <<ws, rc, det, rq, rt, rNext, rResp, rDone, rLog, notRecogVars>>

\* websocket_recog_stream_write: the detector's event for the frame
RecogMediaVad(ev) ==
    /\ rm.pc = "vad"
    /\ ev \in DetectorEvents(det)
    /\ det' = DetectorNext(det, ev)
    /\ IF ev = "ACTIVITY" THEN
           \* websocket_recog_start_of_input sends its event here
           /\ rc' = [rc EXCEPT !.speech_started = TRUE]
           /\ rLog' = [rLog EXCEPT
                  !.soi = @ \cup StartOfInputFor(rc),
                  !.soiAgain = @ \cup (StartOfInputFor(rc) \cap rLog.soi),
                  !.soiLate = @ \cup {r \in StartOfInputFor(rc) : rDone[r] > 0}]
           /\ rm' = [rm EXCEPT !.pc = "buffer"]
           /\ UNCHANGED rq
       ELSE IF ev = "INACTIVITY" /\ rc.audio_buffer_pos > 0 THEN
           /\ Len(rq) < MaxRecogQueue
           /\ rq' = Append(rq, RecogMsg("SEND_AUDIO", NoRequest, "NONE", 0))
           /\ rm' = [rm EXCEPT !.pc = "buffer"]
           /\ UNCHANGED <<rc, rLog>>
       ELSE IF ev = "INACTIVITY" THEN
           /\ rm' = [rm EXCEPT !.pc = "check", !.cause = "SUCCESS"]
           /\ UNCHANGED <<rc, rq, rLog>>
       ELSE IF ev = "NOINPUT" THEN
           /\ rm' = [rm EXCEPT !.pc = "noinput"]
           /\ UNCHANGED <<rc, rq, rLog>>
       ELSE
           /\ rm' = [rm EXCEPT !.pc = "buffer"]
           /\ UNCHANGED <<rc, rq, rLog>>
    /\ UNCHANGED <<ws, wsMutex, rt, rNext, rResp, rDone, notRecogVars>>

\* websocket_recog_stream_write, case MPF_DETECTOR_EVENT_NOINPUT: the test of
\* timers_started
RecogMediaNoInput ==
    /\ rm.pc = "noinput"
    /\ rm' = IF NoInputCompletes(rc)
             THEN [rm EXCEPT !.pc = "check", !.cause = "NO_INPUT_TIMEOUT"]
             ELSE [rm EXCEPT !.pc = "buffer"]
    /\ UNCHANGED <<ws, wsMutex, rc, det, rq, rt, rNext, rResp, rDone, rLog, notRecogVars>>

\* websocket_recog_recognition_complete called by the media thread: the test
RecogMediaCompleteCheck ==
    /\ rm.pc = "check"
    /\ rm' = IF RecognitionCompleteCheck(rc)
             THEN [rm EXCEPT !.pc = "send", !.cap = rc.recog_request]
             ELSE [RecogMediaIdle EXCEPT !.pc = "buffer"]
    /\ UNCHANGED <<ws, wsMutex, rc, det, rq, rt, rNext, rResp, rDone, rLog, notRecogVars>>

\* websocket_recog_recognition_complete called by the media thread: clear and send
RecogMediaCompleteSend ==
    /\ rm.pc = "send"
    /\ rc' = RecognitionCompleteClear(rc)
    /\ rDone' = [rDone EXCEPT ![rm.cap] = @ + 1]
    /\ rm' = [RecogMediaIdle EXCEPT !.pc = "buffer"]
    /\ UNCHANGED <<ws, wsMutex, det, rq, rt, rNext, rResp, rLog, notRecogVars>>

\* websocket_recog_stream_write: an audio frame is copied into the buffer
\* under the channel mutex
RecogMediaBuffer ==
    /\ rm.pc = "buffer"
    /\ \E audio \in BOOLEAN :
        IF audio THEN
            /\ rc' = BufferWrite(rc, RecogFrameSize)
            /\ rm' = [RecogMediaIdle EXCEPT !.pc = "stream"]
        ELSE
            /\ rm' = RecogMediaIdle
            /\ UNCHANGED rc
    /\ UNCHANGED <<ws, wsMutex, det, rq, rt, rNext, rResp, rDone, rLog, notRecogVars>>

\* websocket_recog_stream_write: a chunk is posted as WEBSOCKET_RECOG_MSG_STREAM_AUDIO
RecogMediaStream ==
    /\ rm.pc = "stream"
    /\ IF StreamChunkDue(rc) THEN
           /\ Len(rq) < MaxRecogQueue
           /\ rq' = Append(rq, RecogAudioMsg(rc.stream_pos, StreamChunkSize))
           /\ rm' = [rm EXCEPT !.pc = "advance"]
       ELSE
           /\ rm' = RecogMediaIdle
           /\ UNCHANGED rq
    /\ UNCHANGED <<ws, wsMutex, rc, det, rt, rNext, rResp, rDone, rLog, notRecogVars>>

\* websocket_recog_stream_write: stream_pos += STREAM_CHUNK_SIZE
RecogMediaAdvance ==
    /\ rm.pc = "advance"
    /\ rc' = StreamAdvance(rc)
    /\ rm' = RecogMediaIdle
    /\ UNCHANGED <<ws, wsMutex, det, rq, rt, rNext, rResp, rDone, rLog, notRecogVars>>

\* MAX_RECOGNIZE_DURATION has passed since recognize_start_time (the clock is
\* read only by WEBSOCKET_RECOG_MSG_RECV_RESULT, past its test of
\* waiting_result and recog_request)
RecogClockExpires ==
    /\ ~rc.expired
    /\ rc.waiting_result /\ rc.recog_request # NoRequest
    /\ rc' = [rc EXCEPT !.expired = TRUE]
    /\ UNCHANGED <<ws, wsMutex, det, rq, rt, rm, rNext, rResp, rDone, rLog, notRecogVars>>

\* the background task: one consumer of the queue, one message at a time
RecogTask ==
    \/ RecogDispatch
    \/ RecogConnectBegin
    \/ RecogConnectEnd
    \/ RecogSendAudio
    \/ RecogSendAudioClear
    \/ RecogStreamAudio
    \/ RecogRecvResult
    \/ RecogTaskCompleteCheck
    \/ RecogTaskCompleteSend

\* the media thread: one callback at a time
RecogMedia ==
    \/ RecogStreamWrite
    \/ RecogMediaLock
    \/ RecogMediaUnlock
    \/ \E ev \in {"NONE", "ACTIVITY", "INACTIVITY", "NOINPUT"} : RecogMediaVad(ev)
    \/ RecogMediaNoInput
    \/ RecogMediaCompleteCheck
    \/ RecogMediaCompleteSend
    \/ RecogMediaBuffer
    \/ RecogMediaStream
    \/ RecogMediaAdvance

RecogNext ==
    \/ RecogRequestProcess
    \/ RecogTask
    \/ RecogMedia
    \/ RecogClockExpires

(***************************************************************************)
(* The frame codec of ws_client.c on its own: one frame is built by         *)
(* ws_client_send_frame (or by ws_client_send_close before it) and the      *)
(* bytes are read back by ws_client_receive_frame.                          *)
(***************************************************************************)
\* threads that call the send operations of one WS client
SenderThreads == {"task", "media"}

\* no thread inside a send and nothing written on the connection
SendersIdle ==
    [pc |-> [t \in SenderThreads |-> "idle"], op |-> [t \in SenderThreads |-> "none"],
     len |-> [t \in SenderThreads |-> 0], sent |-> [t \in SenderThreads |-> 0],
     n |-> [t \in SenderThreads |-> 0], wire |-> <<>>]

\* no string being escaped
JsonIdle == [pc |-> "idle", api |-> "none", str |-> <<>>, out |-> <<>>]

\* no write into an audio buffer under way
BufferIdle ==
    [pc |-> "idle", who |-> "none", opcode |-> "binary", n |-> 0,
     c |-> SynthChannelCreate, out |-> SynthChannelCreate]

\* no frame under way
CodecIdle ==
    [pc |-> "idle", api |-> "none", opcode |-> "text", len |-> SizeT(0), mask |-> ClockMask,
     payload |-> <<>>, code |-> 0, reason_len |-> -1, header |-> <<>>,
     wire |-> <<>>, out |-> <<>>]

\* the first bytes of a payload of length len (all of it when it is short)
CodecPayloads(len) ==
    LET n == IF SizeLess126(len) /\ len[4] < MaxCodecPayload THEN len[4]
             ELSE MaxCodecPayload
    IN [1..n -> {0, 90, 255}]

\* the arguments of ws_client_send_frame: every opcode, lengths on both
\* sides of each boundary of the three length forms and of 2^32, and masks
\* as ws_generate_mask can produce them
CodecFrames ==
    {[CodecIdle EXCEPT !.pc = "send_frame", !.api = "send_frame", !.opcode = x[1], !.len = x[2],
                       !.mask = x[3], !.payload = x[4]] :
        x \in UNION {{<<y[1], y[2], y[3], p>> : p \in CodecPayloads(y[2])} :
                 y \in
                     WsOpcodes
                     \X ({SizeT(n) : n \in (0..MaxCodecPayload)
                                      \cup {125, 126, 127, 65535}}
                         \cup {<<0, 0, 1, 0>>, <<0, 0, 1, 1>>, <<0, 0, 65535, 65535>>,
                               <<0, 1, 0, 0>>, <<0, 1, 0, 5>>})
                     \X {<<0, 0, 0, 0>>, <<255, 255, 255, 255>>, <<18, 52, 86, 120>>}}}

\* the arguments of ws_client_send_close: a code and strlen(reason), -1 for
\* a NULL reason
CodecCloses ==
    {[CodecIdle EXCEPT !.pc = "send_close", !.api = "send_close", !.opcode = "close",
                       !.code = x[1],
                       !.reason_len = x[2], !.mask = x[3]] :
        x \in {0, 1000, 65535} \X {-1, 0, 1, 123, 124, 125, 126, 127, 200}
              \X {<<0, 0, 0, 0>>, <<18, 52, 86, 120>>}}

CodecInit ==
    /\ WsInit /\ SynthInit /\ RecogInit /\ bw = BufferIdle /\ je = JsonIdle
    /\ tx = SendersIdle
    /\ fr \in CodecFrames \cup CodecCloses

\* ws_client_send_close: the payload (its first bytes) and its length
CodecSendClose ==
    /\ fr.pc = "send_close"
    /\ fr' = [fr EXCEPT !.pc = "send_frame",
                        !.len = SizeT(ClosePayloadLen(fr.code, fr.reason_len)),
                        !.payload = IF fr.code > 0
                                    THEN <<(fr.code \div 256) % 256, fr.code % 256>>
                                    ELSE <<>>]
    /\ UNCHANGED <<wsVars, wsMutex, synthVars, recogVars, bw, je, tx>>

\* ws_client_send_frame: the header and the masked payload it sends
CodecEncode ==
    /\ fr.pc = "send_frame"
    /\ fr' = [fr EXCEPT !.pc = "sent",
                        !.header = ws_build_frame_header(OpcodeNumber(fr.opcode),
                                                         fr.len, fr.mask),
                        !.wire = ws_mask_data(fr.payload, fr.mask)]
    /\ UNCHANGED <<wsVars, wsMutex, synthVars, recogVars, bw, je, tx>>

\* ws_client_receive_frame: the frame it makes of the bytes sent. It reads
\* as many payload bytes as the length it decoded says.
CodecDecode ==
    /\ fr.pc = "sent"
    /\ LET h == ParseHeader(fr.header)
           data == IF SizeLess126(h.payload_len) /\ h.payload_len[4] < Len(fr.wire)
                   THEN SubSeq(fr.wire, 1, h.payload_len[4])
                   ELSE fr.wire
       IN fr' = [fr EXCEPT !.pc = "received",
                           !.out = [opcode |-> h.opcode, fin |-> h.fin,
                                    masked |-> h.masked, payload_len |-> h.payload_len,
                                    header_len |-> h.header_len,
                                    payload |-> ParsePayload(h, data)]]
    /\ UNCHANGED <<wsVars, wsMutex, synthVars, recogVars, bw, je, tx>>

CodecNext == CodecSendClose \/ CodecEncode \/ CodecDecode

(***************************************************************************)
(* One write into an audio buffer on its own: the synthesizer's buffer      *)
(* filled by websocket_client_receive_audio and the recognizer's buffer     *)
(* filled by websocket_recog_stream_write.                                  *)
(***************************************************************************)
\* a synthesizer channel with a SPEAK in progress, in every state of its
\* buffer, and a frame read from the socket
BufferSynthWrites ==
    {[BufferIdle EXCEPT !.pc = "write", !.who = "synth", !.opcode = x[1], !.n = x[2],
                        !.c = [SynthSpeak(SynthChannelCreate, 1) EXCEPT
                                  !.audio_buffer_write_pos = x[3],
                                  !.audio_buffer_read_pos = x[4],
                                  !.audio_complete = x[5]]] :
        x \in {y \in SynthOpcodes \X (0..MaxPayload) \X (0..SynthBufferSize)
                     \X (0..SynthBufferSize) \X BOOLEAN : y[4] <= y[3]}}

\* a recognizer channel with a RECOGNIZE in progress, in every state of its
\* buffer, and the size of the frame the media thread delivers
BufferRecogWrites ==
    {[BufferIdle EXCEPT !.pc = "write", !.who = "recog", !.n = x[1],
                        !.c = [RecognizeAccept(RecogChannelCreate(x[3]), 1) EXCEPT
                                  !.audio_buffer_pos = x[2]]] :
        x \in (1..MaxPayload) \X (0..RecogBufferSize) \X BOOLEAN}

\* a synthesizer channel in every state the read callback can find it in:
\* with or without a SPEAK, paused or not, with or without a stop response
BufferSynthReads ==
    {[BufferIdle EXCEPT !.pc = "write", !.who = "read",
                        !.c = [speak_request |-> x[1], stop_response |-> x[2],
                               paused |-> x[3], audio_complete |-> x[4],
                               audio_buffer_write_pos |-> x[5],
                               audio_buffer_read_pos |-> x[6]]] :
        x \in {y \in {NoRequest, 1} \X {NoRequest, 2} \X BOOLEAN \X BOOLEAN
                     \X (0..SynthBufferSize) \X (0..SynthBufferSize) :
                   y[6] <= y[5]}}

BufferInit ==
    /\ WsInit /\ SynthInit /\ RecogInit /\ fr = CodecIdle /\ je = JsonIdle
    /\ tx = SendersIdle
    /\ bw \in BufferSynthWrites \cup BufferRecogWrites \cup BufferSynthReads

\* websocket_client_receive_audio: what the frame does to the channel
BufferSynthWrite ==
    /\ bw.pc = "write" /\ bw.who = "synth"
    /\ bw' = [bw EXCEPT !.pc = "written",
                        !.out = ReceiveAudioFrame(bw.c, bw.opcode, bw.n)]
    /\ UNCHANGED <<wsVars, wsMutex, synthVars, recogVars, fr, je, tx>>

\* websocket_recog_stream_write: the copy of the frame into the buffer
BufferRecogWrite ==
    /\ bw.pc = "write" /\ bw.who = "recog"
    /\ bw' = [bw EXCEPT !.pc = "written", !.out = BufferWrite(bw.c, bw.n)]
    /\ UNCHANGED <<wsVars, wsMutex, synthVars, recogVars, fr, je, tx>>

\* websocket_synth_stream_read: one callback; frame and complete tell whether
\* it wrote into the frame and whether it went on to websocket_synth_speak_complete
BufferSynthRead ==
    /\ bw.pc = "write" /\ bw.who = "read"
    /\ bw' = [pc |-> "written", who |-> "read", opcode |-> bw.opcode, n |-> bw.n,
              c |-> bw.c, out |-> StreamReadChannel(bw.c),
              frame |-> StreamReadWritesFrame(bw.c),
              complete |-> StreamReadCompletes(bw.c)]
    /\ UNCHANGED <<wsVars, wsMutex, synthVars, recogVars, fr, je, tx>>

BufferNext == BufferSynthWrite \/ BufferRecogWrite \/ BufferSynthRead

(***************************************************************************)
(* The two JSON escape functions on their own: ws_json_escape_string of the *)
(* client library and json_escape_string of the synthesizer plugin. A       *)
(* string is the sequence of its bytes, every byte in 1..255.               *)
(***************************************************************************)
\* the bytes the strings are made of: a control character with no short
\* escape (0x01), one with a short escape (\n), the quote, a letter, the
\* backslash, the letter n, DEL, and the lead byte of a two-byte UTF-8
\* sequence
JsonAlphabet == {1, 10, 34, 65, 92, 110, 127, 195}

RECURSIVE JsonStringsOfLen(_)
JsonStringsOfLen(n) ==
    IF n = 0 THEN {<<>>}
    ELSE {<<c>> \o t : c \in JsonAlphabet, t \in JsonStringsOfLen(n - 1)}

JsonStrings == UNION {JsonStringsOfLen(n) : n \in 0..MaxJsonLen}

\* one digit of "%04x"
HexDigit(d) == IF d < 10 THEN 48 + d ELSE 87 + d

\* the switch inside the loop: what one byte of the input appends
EscapeByte(c) ==
    CASE c = 34 -> <<92, 34>>
      [] c = 92 -> <<92, 92>>
      [] c = 8  -> <<92, 98>>
      [] c = 12 -> <<92, 102>>
      [] c = 10 -> <<92, 110>>
      [] c = 13 -> <<92, 114>>
      [] c = 9  -> <<92, 116>>
      [] OTHER  -> IF c < 32
                   THEN <<92, 117, 48, 48, HexDigit(c \div 16), HexDigit(c % 16)>>
                   ELSE <<c>>

RECURSIVE ws_json_escape_string(_)
ws_json_escape_string(str) ==
    IF str = <<>> THEN <<>>
    ELSE EscapeByte(Head(str)) \o ws_json_escape_string(Tail(str))

\* the plugin's copy makes the same switch
RECURSIVE json_escape_string(_)
json_escape_string(str) ==
    IF str = <<>> THEN <<>>
    ELSE EscapeByte(Head(str)) \o json_escape_string(Tail(str))

\* the value of one hexadecimal digit, -1 for any other byte
HexValue(b) ==
    IF b \in 48..57 THEN b - 48
    ELSE IF b \in 97..102 THEN b - 87
    ELSE IF b \in 65..70 THEN b - 55
    ELSE -1

\* what a JSON parser makes of the bytes between the quotes of a string
\* (RFC 8259, section 7): a backslash starts an escape, an unescaped quote or
\* control character is an error (<<-1>>), any other byte stands for itself.
\* A \u escape below U+0080 is the one byte of that code point.
RECURSIVE JsonDecode(_)
JsonDecode(s) ==
    IF s = <<>> THEN <<>>
    ELSE IF s[1] = 92
    THEN IF Len(s) < 2 THEN <<-1>>
         ELSE IF s[2] = 117
         THEN IF /\ Len(s) >= 6
                 /\ \A i \in 3..6 : HexValue(s[i]) >= 0
                 /\ HexValue(s[3]) = 0 /\ HexValue(s[4]) = 0 /\ HexValue(s[5]) < 8
              THEN <<16 * HexValue(s[5]) + HexValue(s[6])>>
                       \o JsonDecode(SubSeq(s, 7, Len(s)))
              ELSE <<-1>>
         ELSE LET c == CASE s[2] = 34  -> 34
                         [] s[2] = 92  -> 92
                         [] s[2] = 47  -> 47
                         [] s[2] = 98  -> 8
                         [] s[2] = 102 -> 12
                         [] s[2] = 110 -> 10
                         [] s[2] = 114 -> 13
                         [] s[2] = 116 -> 9
                         [] OTHER      -> -1
              IN  IF c < 0 THEN <<-1>>
                  ELSE <<c>> \o JsonDecode(SubSeq(s, 3, Len(s)))
    ELSE IF s[1] = 34 \/ s[1] < 32 THEN <<-1>>
    ELSE <<s[1]>> \o JsonDecode(Tail(s))

JsonInit ==
    /\ WsInit /\ SynthInit /\ RecogInit /\ fr = CodecIdle /\ bw = BufferIdle
    /\ tx = SendersIdle
    /\ je \in [pc : {"in"}, api : {"ws", "synth"}, str : JsonStrings, out : {<<>>}]

\* ws_json_escape_string(str, pool)
JsonEscapeWs ==
    /\ je.pc = "in" /\ je.api = "ws"
    /\ je' = [je EXCEPT !.pc = "out", !.out = ws_json_escape_string(je.str)]
    /\ UNCHANGED <<wsVars, wsMutex, synthVars, recogVars, fr, bw, tx>>

\* json_escape_string(str, pool)
JsonEscapeSynth ==
    /\ je.pc = "in" /\ je.api = "synth"
    /\ je' = [je EXCEPT !.pc = "out", !.out = json_escape_string(je.str)]
    /\ UNCHANGED <<wsVars, wsMutex, synthVars, recogVars, fr, bw, tx>>

JsonNext == JsonEscapeWs \/ JsonEscapeSynth

(***************************************************************************)
(* ws_client.c: two threads sending on one client                          *)
(***************************************************************************)
\* Each thread calls ws_client_send_text or ws_client_send_binary, or
\* ws_client_receive_frame, which answers a ping by ws_client_send_frame.
\* tx.wire is what the socket of the present connection was handed, in order:
\* <<t, n, 0>> is the header of the n-th frame of thread t and <<t, n, k>> the
\* k-th byte of its masked payload. ws_socket_send loops over
\* apr_socket_send, which may take as little as one byte at a time.

\* a send that releases the mutex once the header is written
SendFrameUnlocksAfterHeader(t) == "free"

\* ws_client_send_frame: who holds client->mutex between the write of the
\* header and the writes of the payload
SendFrameMutexAfterHeader(t) == t

\* ws_client_send_frame returns to thread t
SendReturns(x, t) ==
    [x EXCEPT !.pc[t] = "idle", !.op[t] = "none", !.len[t] = 0, !.sent[t] = 0]

\* ws_client_connect after the connection was lost: a new socket, on which
\* nothing has been written
SendersConnect(t) ==
    \E o \in ConnectOutcomes :
        /\ tx.pc[t] = "idle"
        /\ wsMutex = "free"
        /\ ws.state # "connected"
        /\ ConnectOutcomeOk(ws, o)
        /\ ws' = Connect(ws, o)
        /\ tx' = [tx EXCEPT !.wire = IF o = "create_fail" THEN @ ELSE <<>>]
        /\ UNCHANGED <<wsLast, wsLoop, wsMutex, synthVars, recogVars, fr, bw, je>>

\* ws_client_send_text or ws_client_send_binary is called
SendersCall(t) ==
    \E op \in {"text", "binary"}, len \in 0..(max_frame_size + 1) :
        /\ tx.pc[t] = "idle"
        /\ tx.n[t] < MaxSends
        /\ tx' = [tx EXCEPT !.pc[t] = "lock", !.op[t] = op, !.len[t] = len,
                            !.sent[t] = 0, !.n[t] = @ + 1]
        /\ UNCHANGED <<ws, wsLast, wsLoop, wsMutex, synthVars, recogVars, fr, bw, je>>

\* ws_client_receive_frame reads a ping with the mutex held, releases the
\* mutex and calls ws_client_send_frame for the pong
SendersReceivePing(t) ==
    \E len \in 0..max_frame_size :
        /\ tx.pc[t] = "idle"
        /\ tx.n[t] < MaxSends
        /\ wsMutex = "free"
        /\ PingRead(ws, "ping")
        /\ tx' = [tx EXCEPT !.pc[t] = "lock", !.op[t] = "pong", !.len[t] = len,
                            !.sent[t] = 0, !.n[t] = @ + 1]
        /\ UNCHANGED <<ws, wsLast, wsLoop, wsMutex, synthVars, recogVars, fr, bw, je>>

\* ws_client_send_frame: apr_thread_mutex_lock and the two checks; a client
\* that is not connected or a payload over the limit unlocks and returns
SendersLock(t) ==
    /\ tx.pc[t] = "lock"
    /\ wsMutex = "free"
    /\ IF SendRet(ws, tx.len[t], "ok")
       THEN /\ wsMutex' = t
            /\ tx' = [tx EXCEPT !.pc[t] = "header"]
       ELSE /\ wsMutex' = "free"
            /\ tx' = SendReturns(tx, t)
    /\ UNCHANGED <<ws, wsLast, wsLoop, synthVars, recogVars, fr, bw, je>>

\* ws_client_send_frame: the header is handed to the socket; a failure sets
\* state = ERROR and returns; with no payload the call returns TRUE; a
\* payload buffer that cannot be allocated returns FALSE
SendersHeader(t) ==
    \E o \in SendOutcomes \ {"payload_fail"} :
        /\ tx.pc[t] = "header"
        /\ ws' = SendFrame(ws, tx.len[t], o)
        /\ IF o = "hdr_fail"
           THEN /\ wsMutex' = "free"
                /\ tx' = SendReturns(tx, t)
           ELSE IF tx.len[t] = 0 \/ o = "alloc_fail"
           THEN /\ wsMutex' = "free"
                /\ tx' = [SendReturns(tx, t) EXCEPT
                                !.wire = Append(@, <<t, tx.n[t], 0>>)]
           ELSE /\ wsMutex' = SendFrameMutexAfterHeader(t)
                /\ tx' = [tx EXCEPT !.pc[t] = "payload",
                                    !.wire = Append(@, <<t, tx.n[t], 0>>)]
        /\ UNCHANGED <<wsLast, wsLoop, synthVars, recogVars, fr, bw, je>>

\* ws_client_send_frame: ws_socket_send hands the next byte of the masked
\* payload to the socket; a failure sets state = ERROR and returns; after the
\* last byte the mutex is released and the call returns TRUE
SendersPayload(t) ==
    \E o \in {"payload_fail", "ok"} :
        /\ tx.pc[t] = "payload"
        /\ ws' = SendFrame(ws, tx.len[t], o)
        /\ IF o = "payload_fail"
           THEN /\ wsMutex' = "free"
                /\ tx' = SendReturns(tx, t)
           ELSE IF tx.sent[t] + 1 = tx.len[t]
           THEN /\ wsMutex' = "free"
                /\ tx' = [SendReturns(tx, t) EXCEPT
                                !.wire = Append(@, <<t, tx.n[t], tx.sent[t] + 1>>)]
           ELSE /\ UNCHANGED wsMutex
                /\ tx' = [tx EXCEPT !.sent[t] = @ + 1,
                                    !.wire = Append(@, <<t, tx.n[t], tx.sent[t] + 1>>)]
        /\ UNCHANGED <<wsLast, wsLoop, synthVars, recogVars, fr, bw, je>>

SendersNext ==
    \E t \in SenderThreads :
        \/ SendersConnect(t)
        \/ SendersCall(t)
        \/ SendersReceivePing(t)
        \/ SendersLock(t)
        \/ SendersHeader(t)
        \/ SendersPayload(t)

(***************************************************************************)
(* Specifications                                                          *)
(***************************************************************************)
Init ==
    /\ WsInit /\ SynthInit /\ RecogInit
    /\ fr = CodecIdle /\ bw = BufferIdle /\ je = JsonIdle
    /\ tx = SendersIdle

\* the WS client alone: one caller making any sequence of public calls
SpecWs == Init /\ [][WsNext]_vars

\* the synthesizer channel
SpecSynth == Init /\ [][SynthNext]_vars

\* the synthesizer channel with both threads scheduled: the task keeps
\* consuming its queue and the media thread keeps calling back. Nothing is
\* assumed about the host or the remote service.
SpecSynthFair == SpecSynth /\ WF_vars(SynthTask) /\ WF_vars(SynthMedia)

\* the frame codec: every frame of CodecFrames and every close of
\* CodecCloses is encoded and decoded
SpecCodec == CodecInit /\ [][CodecNext]_vars

\* the audio buffers: every write of BufferSynthWrites and BufferRecogWrites
\* is made
SpecBuffer == BufferInit /\ [][BufferNext]_vars

\* the JSON escape functions: every string of JsonStrings is escaped by each
SpecJson == JsonInit /\ [][JsonNext]_vars

\* one WS client shared by two threads that send on it
SpecSenders == Init /\ [][SendersNext]_vars

\* the recognizer channel with its WS client
SpecRecog == Init /\ [][RecogNext]_vars

\* the recognizer channel with both threads scheduled, audio frames that
\* keep arriving (an utterance begins and ends whenever the detector is
\* asked often enough) and a clock that advances
SpecRecogFair ==
    /\ SpecRecog
    /\ WF_vars(RecogTask)
    /\ WF_vars(RecogMedia)
    /\ SF_vars(RecogMediaVad("ACTIVITY"))
    /\ SF_vars(RecogMediaVad("INACTIVITY"))
    /\ WF_vars(RecogClockExpires)

(***************************************************************************)
(* Claims about the WS client, checked under SpecWs                        *)
(***************************************************************************)
\* C1: after any sequence of public calls the state is one of the five
\* states and the socket handle is non-null exactly when the state is
\* connecting, connected or closing.
C1_StateSocketInvariant ==
    /\ ws.state \in WsStates
    /\ ws.socket # NullSocket <=> ws.state \in {"connecting", "connected", "closing"}

\* C10: whenever ws_client_connect has returned false, the socket handle is
\* null and the state is error.
C10_FailedConnectClosesSocket ==
    (wsLast.op \in {"connect", "connect_with_retry"} /\ ~wsLast.ret)
        => (ws.socket = NullSocket /\ ws.state = "error")

\* C11: ws_client_connect_with_retry makes at most max_retries + 1 calls of
\* ws_client_connect; it returns TRUE at the first call that succeeds and
\* makes no further call; it returns FALSE only after exactly
\* max_retries + 1 failed calls, and the state is then error.
C11_RetryTerminates ==
    /\ wsLast.calls <= max_retries + 1
    /\ wsLoop # -1 => wsLast.fails = wsLast.calls
    /\ (wsLast.op = "connect_with_retry" /\ wsLast.ret)
           => (wsLast.fails = wsLast.calls - 1 /\ wsLoop = -1 /\ IsConnected(ws))
    /\ (wsLast.op = "connect_with_retry" /\ ~wsLast.ret)
           => /\ wsLast.calls = max_retries + 1
              /\ wsLast.fails = max_retries + 1
              /\ wsLoop = -1
              /\ ws.state = "error"

C11_Witness ==
    /\ wsLast.op = "connect_with_retry" /\ ~wsLast.ret
    /\ wsLast.calls = max_retries + 1

\* C12: after ws_client_disconnect, called in any state, the state is
\* disconnected and the socket is null; a close frame (and nothing else) is
\* handed to the socket if and only if send_close is true and the state was
\* connected at the call.
C12_DisconnectResult ==
    wsLast.op = "disconnect" =>
        /\ ws.state = "disconnected"
        /\ ws.socket = NullSocket
        /\ (wsLast.wrote # <<>>) <=> (wsLast.send_close /\ wsLast.pre = "connected")
        /\ \A i \in DOMAIN wsLast.wrote : wsLast.wrote[i].opcode = "close"
        /\ Len(wsLast.wrote) <= 1

C12_Witness ==
    /\ wsLast.op = "disconnect" /\ wsLast.pre = "connected" /\ wsLast.send_close
    /\ wsLast.wrote # <<>>

\* C13: every socket-level error, in a send or in ws_client_receive_frame
\* (not a timeout), moves the client to state error, and in state error every
\* send returns FALSE.
C13_SocketErrorsAreFatal ==
    /\ wsLast.sock \in {"error", "mid_error"} => ws.state = "error"
    /\ (wsLast.op \in WsSendOps /\ wsLast.pre = "error") => ~wsLast.ret

\* C14: ws_client_send_text and ws_client_send_binary with a payload longer
\* than max_frame_size return FALSE, hand nothing to the socket and leave the
\* client connected.
C14_OversizeSendRejected ==
    (/\ wsLast.op \in {"send_text", "send_binary"}
     /\ wsLast.pre = "connected"
     /\ wsLast.len > max_frame_size)
        => /\ ~wsLast.ret
           /\ wsLast.wrote = <<>>
           /\ wsLast.sock = "none"
           /\ ws.state = "connected"

C14_Witness ==
    /\ wsLast.op \in {"send_text", "send_binary"}
    /\ wsLast.pre = "connected"
    /\ wsLast.len > max_frame_size

\* C15: when no header byte arrives within the receive timeout,
\* ws_client_receive_frame returns FALSE and changes no state; when the
\* timeout runs out after the two header bytes were consumed, the client
\* moves to state error.
C15_ReceiveTimeouts ==
    wsLast.op = "receive_frame" =>
        /\ wsLast.sock = "timeout" => (~wsLast.ret /\ ws.state = wsLast.pre)
        /\ wsLast.sock = "mid_timeout" => ws.state = "error"

\* C16: a close frame read while connected makes ws_client_receive_frame
\* return TRUE with opcode close and the state closing; in state closing
\* every send and every ws_client_receive_frame returns FALSE and writes
\* nothing; the state leaves closing only by a disconnect (to disconnected)
\* or by a connect.
C16_ClosingState ==
    /\ (wsLast.op = "receive_frame" /\ wsLast.frame = "close")
           => (wsLast.ret /\ ws.state = "closing")
    /\ (wsLast.pre = "closing" /\ wsLast.op \in WsSendOps \cup {"receive_frame"})
           => (~wsLast.ret /\ wsLast.wrote = <<>> /\ ws.state = "closing")
    /\ (wsLast.pre = "closing" /\ ws.state # "closing")
           => \/ wsLast.op \in {"disconnect", "destroy"} /\ ws.state = "disconnected"
              \/ wsLast.op \in {"connect", "connect_with_retry"}

C16_Witness ==
    /\ wsLast.pre = "closing" /\ wsLast.op \in WsSendOps
    /\ ws.state = "closing"

C28_AllAccessUnderMutex ==
    /\ wsLast.bare = {}
    /\ wsLast.pending => wsMutex = "free"

\* C36: a WS client holds at most one open socket at any time: a connect
\* started in any state (disconnected, closing after a close frame was read,
\* error after a failed send) never takes a new socket while the handle it
\* has is still open.
C36_AtMostOneSocket == ws.fds <= 1

\* C40: ws_client_receive_frame keeps the stream aligned on frame
\* boundaries: whenever it returns FALSE and the state stays connected it has
\* taken no byte of the stream, so a header read that obtains one of the two
\* header bytes does not drop that byte.
C40_FalseReceiveTakesNothing ==
    (wsLast.op = "receive_frame" /\ ~wsLast.ret /\ ws.state = "connected")
        => wsLast.taken = 0

(***************************************************************************)
(* Claims about the synthesizer channel                                    *)
(***************************************************************************)
\* C4: for every accepted SPEAK request no more than one SPEAK-COMPLETE event
\* is ever emitted, under every interleaving of the media thread's read
\* callback with the background task's speak handler.
C4_AtMostOneSpeakComplete ==
    \A r \in SynthReqIds : sDone[r] <= 1

\* request r is the active SPEAK, not paused, and no STOP is waiting
SpeakPending(r) ==
    /\ sc.speak_request = r
    /\ ~sc.paused
    /\ sc.stop_response = NoRequest

\* C5: every SPEAK request answered in-progress and not stopped eventually
\* gets a SPEAK-COMPLETE event whatever the remote service does: no request
\* stays the active, unpaused, unstopped SPEAK for ever.
C5_SpeakEventuallyCompletes ==
    \A r \in SynthReqIds : []<>(~SpeakPending(r))

\* the task has nothing left to do
SynthTaskQuiet == sq = <<>> /\ st.pc = "idle"

\* C6: when the connection fails after the speak request was sent and at
\* least one binary frame was received, the active SPEAK request completes
\* with SPEAK-COMPLETE carrying cause ERROR: once the task has handled all
\* its messages, every such request that was not stopped or replaced has it.
C6_MidSpeakFailureCompletesWithError ==
    SynthTaskQuiet =>
        \A r \in sLog.failedMid \ (sLog.stopped \cup sLog.superseded) :
            sDone[r] > 0 /\ sCause[r] = "ERROR"

\* C7: one and only one response is sent for every request delivered to the
\* channel: never two, and exactly one once the task has handled all its
\* messages and the media thread has flushed the stored STOP response.
C7_OneResponsePerRequest ==
    /\ \A r \in SynthReqIds : sResp[r] <= 1
    /\ (SynthTaskQuiet /\ sm.pc = "idle" /\ sc.stop_response = NoRequest)
           => \A r \in 1..(sNext - 1) : sResp[r] = 1

\* the STOP (or BARGE-IN-OCCURRED) request r waits in the task's queue
StopQueued(r) ==
    \E i \in DOMAIN sq :
        /\ sq[i].req = r
        /\ sq[i].method \in {"STOP", "BARGE_IN_OCCURRED"}

\* C9: every handler of the background task returns after a bounded number
\* of steps, so a STOP request queued behind an in-progress speak is
\* eventually dispatched.
C9_QueuedStopEventuallyDispatched ==
    \A r \in SynthReqIds : []<>(~StopQueued(r))

\* C18: every frame the bridge writes to a socket, from the shared WS client
\* and from the synthesizer's own client (its ping reply included), has the
\* mask bit set, carries a 4-byte mask key and has fin = 1, and none is a
\* continuation frame.
C18_ClientFramesMasked ==
    /\ \A i \in DOMAIN wsLast.wrote :
           /\ wsLast.wrote[i].fin /\ wsLast.wrote[i].mask /\ wsLast.wrote[i].key = 4
           /\ wsLast.wrote[i].opcode # "continuation"
    /\ \A f \in sLog.wrote :
           f.fin /\ f.mask /\ f.opcode # OpcodeNumber("continuation")

\* C21: in every reachable state of a synthesizer channel
\* 0 <= read position <= write position <= capacity, whatever the order in
\* which the task appends audio, the media thread reads frames, a SPEAK
\* resets the buffer and a STOP flush resets it; right after a reset both
\* positions are 0 and the completion flag is false.
C21_AudioBufferInvariant ==
    /\ [](/\ 0 <= sc.audio_buffer_read_pos
          /\ sc.audio_buffer_read_pos <= sc.audio_buffer_write_pos
          /\ sc.audio_buffer_write_pos <= SynthBufferSize)
    /\ [][(sLog'.accepted # sLog.accepted
           \/ (sc.stop_response # NoRequest /\ sc'.stop_response = NoRequest))
          => (/\ sc'.audio_buffer_write_pos = 0
              /\ sc'.audio_buffer_read_pos = 0
              /\ ~sc'.audio_complete)]_vars

\* the buffer is full and part of it has been read
C21_Witness ==
    /\ sc.audio_buffer_write_pos = SynthBufferSize
    /\ sc.audio_buffer_read_pos > 0
    /\ sLog.stopped # {}

\* C24: SPEAK-COMPLETE with cause NORMAL is emitted only in a state where
\* the completion flag is set and read position = write position, and at
\* that point the audio bytes copied into host frames since the SPEAK began
\* are exactly the bytes accepted into the buffer, with no more than the
\* final partial frame filled up with zeros.
C24_NormalCompleteAfterDrain ==
    [][(sm.pc = "send" /\ sDone' # sDone)
       => (/\ sc.audio_complete
           /\ sc.audio_buffer_read_pos = sc.audio_buffer_write_pos
           /\ sLog.copied = sLog.appended
           /\ sLog.padded <= 1)]_vars

\* C25: a SPEAK request with empty text completes with SPEAK-COMPLETE(ERROR)
\* without touching the network: its handler makes no connect attempt,
\* creates no socket and sends no frame; once the task has handled all its
\* messages, every such request that was not stopped or replaced has its
\* event.
C25_EmptyTextNoNetwork ==
    /\ sLog.emptyNet = {}
    /\ SynthTaskQuiet =>
           \A r \in sLog.empty \ (sLog.stopped \cup sLog.superseded) : sDone[r] > 0

\* C26: after a transport error on a synthesizer channel (a failed send of
\* the speak request or a failed receive) the channel's client is no longer
\* marked connected, so that the next SPEAK request performs a new connect
\* before it sends.
C26_TransportErrorDisconnects ==
    sLog.netFailed => (~sws.connected /\ SynthConnectCalled(sws))

(***************************************************************************)
(* Claims about the frame codec, checked under SpecCodec                   *)
(***************************************************************************)
\* C19: for any close code and any reason string, the payload send_close
\* builds is at most 125 bytes long: 2 code bytes (none when the code is 0)
\* followed by at most 123 reason bytes, and its frame uses the 7-bit
\* length form.
C19_ClosePayloadAtMost125 ==
    (fr.api = "send_close" /\ fr.pc # "send_close") =>
        /\ SizeLess126(fr.len)
        /\ fr.len[4] <= (IF fr.code > 0 THEN 2 + 123 ELSE 0)
        /\ fr.pc \in {"sent", "received"} =>
               (HeaderLen7(fr.header) < 126 /\ Len(fr.header) = 6)

\* C20: for every opcode, every payload length L and every mask, decoding
\* the header built by the encoder followed by the masked payload yields
\* the same opcode, fin = true, masked = true, payload_len = L and the
\* original payload bytes; the header is 6, 8 or 14 bytes long in the 7-bit,
\* 16-bit and 64-bit ranges.
C20_FrameRoundTrip ==
    (fr.api = "send_frame" /\ fr.pc = "received") =>
        /\ fr.out.opcode = OpcodeNumber(fr.opcode)
        /\ fr.out.fin /\ fr.out.masked
        /\ fr.out.payload_len = fr.len
        /\ fr.out.payload = fr.payload
        /\ Len(fr.header) = (IF SizeLess126(fr.len) THEN 6
                             ELSE IF SizeLess65536(fr.len) THEN 8 ELSE 14)
        /\ fr.out.header_len = Len(fr.header)

(***************************************************************************)
(* Claims about the recognizer channel, checked under SpecRecog and        *)
(* SpecRecogFair                                                           *)
(***************************************************************************)
\* C2: under every interleaving of the media thread's callback with the
\* task's SEND_AUDIO and RECV_RESULT handlers, at most one
\* RECOGNITION-COMPLETE event is sent for an accepted RECOGNIZE request.
C2_AtMostOneRecognitionComplete ==
    \A r \in RecogReqIds : rDone[r] <= 1

\* request r is the active RECOGNIZE request and no STOP is waiting for it
RecogPending(r) == rc.recog_request = r /\ rc.stop_response = NoRequest

\* C3: with audio frames that keep arriving and a task that is scheduled
\* fairly, an accepted RECOGNIZE request does not stay active for ever: it
\* is completed (or stopped), also when the send of a streamed chunk failed.
C3_RecognizeEventuallyCompletes ==
    \A r \in RecogReqIds : []<>(~RecogPending(r))

\* C8: the media thread's callback never holds the WS client's mutex and
\* never waits for it while the task holds it.
C8_MediaNeverTakesClientMutex ==
    /\ wsMutex # "media"
    /\ ~(rm.pc = "lock" /\ wsMutex = "task")

\* C22: in every reachable state of a recognizer channel the streaming
\* cursor stream_pos is at most the buffer write position, and the write
\* position is at most the capacity, whatever the order in which the media
\* thread posts a chunk and advances the cursor and the task's SEND_AUDIO
\* handler resets both positions to 0.
C22_StreamCursorBehindWrite ==
    /\ rc.stream_pos <= rc.audio_buffer_pos
    /\ rc.audio_buffer_pos <= RecogBufferSize

\* C27: when the SEND_AUDIO handler finds buffered audio (write position
\* > 0) and the WS client is not connected, or the binary send fails, the
\* active request completes with RECOGNITION-COMPLETE(ERROR), never with
\* SUCCESS: whenever the handler, with audio in the buffer, goes on to
\* complete the request, the cause it passes is ERROR.
C27_SendAudioFailureIsError ==
    [][(/\ rt.pc = "idle" /\ rq # <<>> /\ Head(rq).type = "SEND_AUDIO"
        /\ rc.audio_buffer_pos > 0
        /\ rt'.pc = "check")
       => rt'.cause = "ERROR"]_vars

\* C30: when ws_client_ensure_connected fails during a RECOGNIZE request,
\* exactly one response is sent for the request and its status is
\* method-failed, the request does not become the active one (the stored
\* request is left as it was, none when none was active), and no
\* START-OF-INPUT and no RECOGNITION-COMPLETE is ever sent for it.
C30_FailedConnectRejects ==
    /\ [](\A r \in rLog.failed :
             /\ rResp[r] = 1 /\ rLog.status[r] = "method-failed"
             /\ rc.recog_request # r
             /\ rDone[r] = 0 /\ r \notin rLog.soi)
    /\ [][rLog'.failed # rLog.failed
             => rc'.recog_request = rc.recog_request]_vars

\* a RECOGNIZE was rejected for want of a connection and the channel went on
\* to run another request up to its START-OF-INPUT and its completion
C30_Witness ==
    /\ rLog.failed # {}
    /\ rLog.soi # {}
    /\ \E r \in RecogReqIds : rDone[r] > 0

\* C31: the first audio callback after a STOP response was stored sends that
\* response, clears the active request and the stop response and feeds
\* nothing to the detector or the buffer; from then on no
\* RECOGNITION-COMPLETE is sent for the request the callback cleared, whatever
\* SEND_AUDIO or RECV_RESULT messages are still queued.
C31_StopFlushEndsRequest ==
    /\ [][(rm.pc = "idle" /\ rc.stop_response # NoRequest
           /\ rt' = rt /\ rq' = rq /\ ws' = ws /\ rc'.expired = rc.expired)
          => (/\ rResp'[rc.stop_response] = rResp[rc.stop_response] + 1
              /\ rc'.recog_request = NoRequest /\ rc'.stop_response = NoRequest
              /\ det' = det /\ rc'.audio_buffer_pos = rc.audio_buffer_pos
              /\ rm' = rm)]_vars
    /\ [][\A r \in rLog.stopped : rDone'[r] = rDone[r]]_vars

\* C32: for one RECOGNIZE request START-OF-INPUT is sent at most once and
\* never after the request's RECOGNITION-COMPLETE; with streaming disabled a
\* RECOGNITION-COMPLETE(SUCCESS) sent by the task comes after the request's
\* START-OF-INPUT.
C32_StartOfInputOnceAndFirst ==
    /\ [](rLog.soiAgain = {} /\ rLog.soiLate = {})
    /\ [][\A r \in RecogReqIds :
             (/\ rDone'[r] > rDone[r] /\ rt.pc = "send" /\ rt.cause = "SUCCESS"
              /\ ~rc.streaming_enabled)
                 => r \in rLog.soi]_vars

\* C33: with streaming enabled each byte of an utterance is sent at most
\* once: when the SEND_AUDIO handler sends the buffer, no chunk of the bytes
\* that are in it has been sent as a STREAM_AUDIO frame before.
C33_StreamedBytesNotResent ==
    [][(/\ rt.pc = "idle" /\ rq # <<>> /\ Head(rq).type = "SEND_AUDIO"
        /\ rc.streaming_enabled
        /\ rt'.pc = "clear" /\ rc'.waiting_result /\ rq' # rq)
       => ~rLog.streamed]_vars

\* C38: the bytes the task sends for a STREAM_AUDIO message are the bytes
\* that were at the message's place in the buffer when the media thread
\* posted it: no chunk is sent whose place has been written again after a
\* reset of the buffer (by SEND_AUDIO or by a new RECOGNIZE) that came
\* between the post and the send.
C38_ChunkBytesAsPosted ==
    [][(/\ rt.pc = "idle" /\ rq # <<>> /\ Head(rq).type = "STREAM_AUDIO"
        /\ IsConnected(ws) /\ rq' = Tail(rq))
       => ~(rLog.stale > 0 /\ rc.audio_buffer_pos > Head(rq).pos)]_vars

C37_FlushClearsStoppedOnly ==
    [][\A r \in rLog'.stopped \ rLog.stopped : r = rLog.stopTarget]_vars

(***************************************************************************)
(* Claims about the audio buffers, checked under SpecBuffer                *)
(***************************************************************************)
\* C23: a write of n bytes into an audio buffer with less than n bytes of
\* free space appends exactly capacity - write bytes and drops the rest, and
\* the active request stays in place; for the recognizer's buffer filled by
\* the media thread and for the synthesizer's buffer filled from received
\* binary frames.
C23_OverflowAppendsFreeSpace ==
    /\ (bw.pc = "written" /\ bw.who = "synth"
        /\ bw.opcode \in {"binary", "continuation"}
        /\ bw.n > SynthBufferSize - bw.c.audio_buffer_write_pos)
           => /\ bw.out.audio_buffer_write_pos = SynthBufferSize
              /\ bw.out.speak_request = bw.c.speak_request
    /\ (bw.pc = "written" /\ bw.who = "recog"
        /\ bw.n > RecogBufferSize - bw.c.audio_buffer_pos)
           => /\ bw.out.audio_buffer_pos = RecogBufferSize
              /\ bw.out.recog_request = bw.c.recog_request

\* C34 as stated: while the channel is paused or has no SPEAK request the
\* read callback leaves the frame, the read position and the write position
\* as they are and raises no SPEAK-COMPLETE, and after RESUME reading goes on
\* from the same read position.
C34_IdleReadLeavesAll ==
    (bw.pc = "written" /\ bw.who = "read"
     /\ (bw.c.paused \/ bw.c.speak_request = NoRequest))
        => /\ ~bw.frame /\ ~bw.complete
           /\ bw.out.audio_buffer_read_pos = bw.c.audio_buffer_read_pos
           /\ bw.out.audio_buffer_write_pos = bw.c.audio_buffer_write_pos
           /\ SynthResume(bw.out).audio_buffer_read_pos = bw.c.audio_buffer_read_pos

\* C34 amended: the same, for a callback that finds no stop response
\* pending. (A pending stop response is flushed first, whether the channel
\* is paused or not, and the flush resets both positions.)
C34_IdleReadLeavesAllUnlessStop ==
    (bw.pc = "written" /\ bw.who = "read"
     /\ (bw.c.paused \/ bw.c.speak_request = NoRequest)
     /\ bw.c.stop_response = NoRequest)
        => /\ ~bw.frame /\ ~bw.complete
           /\ bw.out.audio_buffer_read_pos = bw.c.audio_buffer_read_pos
           /\ bw.out.audio_buffer_write_pos = bw.c.audio_buffer_write_pos
           /\ SynthResume(bw.out).audio_buffer_read_pos = bw.c.audio_buffer_read_pos

\* the callback has run on a paused SPEAK with a whole frame of audio waiting
\* and its completion flag set, and no stop response
C34_Witness ==
    /\ bw.pc = "written" /\ bw.who = "read"
    /\ bw.c.paused /\ bw.c.speak_request # NoRequest
    /\ bw.c.stop_response = NoRequest
    /\ SynthAvailable(bw.c) >= SynthFrameSize /\ bw.c.audio_complete

(***************************************************************************)
(* Claims about concurrent senders, checked under SpecSenders              *)
(***************************************************************************)
\* C39: frames of concurrent senders never interleave on the wire: when two
\* threads call send operations on the same client (the pong sent from
\* ws_client_receive_frame included), every payload byte on the wire comes
\* straight after the byte before it of the same frame, the header first, and
\* while a frame is being written the last byte on the wire is its own.
C39_FramesNeverInterleave ==
    /\ \A i \in 1..Len(tx.wire) :
           tx.wire[i][3] > 0 =>
               /\ i > 1
               /\ tx.wire[i - 1] = <<tx.wire[i][1], tx.wire[i][2], tx.wire[i][3] - 1>>
    /\ \A t \in SenderThreads :
           tx.pc[t] = "payload" =>
               /\ tx.wire # <<>>
               /\ tx.wire[Len(tx.wire)] = <<t, tx.n[t], tx.sent[t]>>

\* one thread is between the header and the end of its payload while the
\* other has called ws_client_send_frame for a pong and waits for the mutex,
\* and both have written on this connection
C39_Witness ==
    /\ tx.pc["task"] = "payload" /\ tx.sent["task"] = 1
    /\ tx.pc["media"] = "lock" /\ tx.op["media"] = "pong"
    /\ \E i \in 1..Len(tx.wire) : tx.wire[i][1] = "media" /\ tx.wire[i][3] > 0

(***************************************************************************)
(* Claims about the JSON escape functions, checked under SpecJson          *)
(***************************************************************************)
\* C29: json_escape is injective on byte strings without NUL, its output
\* decodes back to the input under the JSON string rules, and every byte of
\* the output lies in 0x20..0x7E (the bytes of a \uXXXX escape are in that
\* range themselves).
C29_EscapeInjectiveAscii ==
    je.pc = "out" =>
        /\ \A t \in JsonStrings :
               (IF je.api = "ws" THEN ws_json_escape_string(t)
                                 ELSE json_escape_string(t)) = je.out
                   => t = je.str
        /\ JsonDecode(je.out) = je.str
        /\ \A i \in 1..Len(je.out) : je.out[i] \in 32..126

====
